---- MODULE Spec2Model ----
(***************************************************************************)
(* Model of the spreadsheet backend (server/app.js, server/policies.js):   *)
(* identity resolution, plan/role/quota gates, and the workbook handlers   *)
(* that read-modify-write one blob per storage key.                        *)
(***************************************************************************)
EXTENDS Integers, Sequences, FiniteSets, TLC

VARIABLES
  profiles,   \* the profiles table: user id -> row
  store,      \* the excel bucket: storage key -> workbook blob
  audit,      \* the excel_audit table, in insertion (created_at) order
  day,        \* the current UTC day
  last,       \* the response to the most recently served request
  slots,      \* requests in flight (handlers suspended at an await)
  left,       \* number of requests the clients still send
  client,     \* what a calling client keeps: the sheet list it got and its calls since
  payments,   \* the payments table, in insertion order
  sockets,    \* the realtime connections: socket id -> rooms joined and events received
  sse,        \* the push streams: the clock, every stream opened, and the sseClients map
  logs        \* the logs bucket: day -> lines of the day's audit object

vars == <<profiles, store, audit, day, last, slots, left, client, payments, sockets, sse, logs>>

----------------------------------------------------------------------------
(* Bounds of the model *)

MaxPriorRows == 3      \* rows of the sheet content drawn at Init (grid spec)
MaxPriorCols == 2      \* columns of that content
MaxGridRows == 2       \* rows of a submitted grid
MaxGridCols == 2       \* longest row of a submitted grid
MaxReq == 2            \* requests served in one behaviour of Spec
MaxAuthReq == 1        \* requests served in one behaviour of SpecAuth
MaxGridReq == 2        \* requests served in one behaviour of SpecGrid
MaxQuotaReq == 4       \* requests served in one behaviour of SpecQuota
MaxDay == 2            \* UTC days a behaviour spans
MaxWriters == 2        \* save-all handlers in flight in SpecConc
MaxRoundReq == 5
MaxAuditReq == 4
MaxReadReq == 2
MaxHookReq == 2
MaxLogReq == 3
MaxCsvLen == 3
MaxSseReq == 4
MaxSseTick == 1
MaxRelayReq == 3       \* requests served in one behaviour of SpecRound

----------------------------------------------------------------------------
(* Values *)

Null == "null"
Marker == "New sheet created"
Max2(a, b) == IF a >= b THEN a ELSE b
SetMax(S) == IF S = {} THEN 0 ELSE CHOOSE m \in S : \A x \in S : x <= m
\* JavaScript a || b on numbers
OrElse(a, b) == IF a # 0 THEN a ELSE b

DimR == Max2(MaxPriorRows, MaxGridRows)
DimC == Max2(MaxPriorCols, MaxGridCols)
Cells == (1..DimR) \X (1..DimC)
EmptyV == [p \in Cells |-> Null]

----------------------------------------------------------------------------
(* The spreadsheet library as the handlers use it.  A stored sheet is its  *)
(* name, its cell values and the rows that have a row element in the file; *)
(* a loaded worksheet also has the cell and row objects created in memory  *)
(* and the length of its column list.                                      *)

RowsWithValues(v) == {r \in 1..DimR : \E c \in 1..DimC : v[<<r, c>>] # Null}
ColsWithValues(v) == {c \in 1..DimC : \E r \in 1..DimR : v[<<r, c>>] # Null}

LoadSheet(s) ==
  [name |-> s.name, v |-> s.v,
   cellObj |-> {p \in Cells : s.v[p] # Null},
   rowObj |-> s.rows,
   ncols |-> SetMax(ColsWithValues(s.v))]

NewWorksheet(name) ==
  [name |-> name, v |-> EmptyV, cellObj |-> {}, rowObj |-> {}, ncols |-> 0]

\* writeBuffer: a row is written when it has a cell object, a cell when it has a value
WriteSheet(ws) ==
  [name |-> ws.name, v |-> ws.v, rows |-> {r \in 1..DimR : \E c \in 1..DimC : <<r, c>> \in ws.cellObj}]

ActualRowCount(ws) == Cardinality(RowsWithValues(ws.v))
ActualColumnCount(ws) == Cardinality(ColsWithValues(ws.v))
RowCount(ws) == SetMax(ws.rowObj)
ColumnsLength(ws) == ws.ncols

\* ws.getRow(r) for every row of rs and getCell(c).value = val for every column of cs
SetBlock(ws, rs, cs, val) ==
  [ws EXCEPT !.v = [p \in Cells |-> IF p[1] \in rs /\ p[2] \in cs THEN val[p] ELSE ws.v[p]],
             !.cellObj = ws.cellObj \cup (rs \X cs),
             !.rowObj = ws.rowObj \cup rs,
             !.ncols = IF rs = {} THEN ws.ncols ELSE Max2(ws.ncols, SetMax(cs))]

----------------------------------------------------------------------------
(* POST /excel/save-all: the grid part *)

\* the request body's data: an array of rows (each an array or a scalar), or not an array
NormalizeGrid(data) ==
  IF data.isArray
    THEN [i \in 1..Len(data.rows) |->
            IF data.rows[i].isArray THEN data.rows[i].cells ELSE <<data.rows[i].scalar>>]
    ELSE << <<>> >>

MaxRowIn(grid) == Len(grid)
MaxColIn(grid) == SetMax({Len(grid[i]) : i \in 1..Len(grid)})
GridAt(grid, r, c) == IF c <= Len(grid[r]) THEN grid[r][c] ELSE Null

ApplyEdits(ws, grid) ==
  LET newVal(r, c) == GridAt(grid, r, c)
      put(r, c) == IF ws.v[<<r, c>>] # newVal(r, c) THEN newVal(r, c) ELSE ws.v[<<r, c>>]
  IN  SetBlock(ws, 1..MaxRowIn(grid), 1..MaxColIn(grid),
               [p \in (1..MaxRowIn(grid)) \X (1..MaxColIn(grid)) |-> put(p[1], p[2])])

ExistingMaxRow(ws) == OrElse(ActualRowCount(ws), RowCount(ws))
ExistingMaxCol(ws) == OrElse(ActualColumnCount(ws), ColumnsLength(ws))

ClearNull(rs, cs) == [p \in rs \X cs |-> Null]

\* rows beyond the new row count
ClearRows(ws, maxRowIn, existingMaxRow, existingMaxCol) ==
  SetBlock(ws, (maxRowIn + 1)..existingMaxRow, 1..existingMaxCol,
           ClearNull((maxRowIn + 1)..existingMaxRow, 1..existingMaxCol))

\* columns beyond the new column count
ClearCols(ws, maxRowIn, maxColIn, existingMaxRow, existingMaxCol) ==
  SetBlock(ws, 1..Max2(existingMaxRow, maxRowIn), (maxColIn + 1)..existingMaxCol,
           ClearNull(1..Max2(existingMaxRow, maxRowIn), (maxColIn + 1)..existingMaxCol))

SaveGrid(ws, data) ==
  LET grid == NormalizeGrid(data)
      edited == ApplyEdits(ws, grid)
      existingMaxRow == ExistingMaxRow(edited)
      existingMaxCol == ExistingMaxCol(edited)
      rowsCleared == ClearRows(edited, MaxRowIn(grid), existingMaxRow, existingMaxCol)
  IN  ClearCols(rowsCleared, MaxRowIn(grid), MaxColIn(grid), existingMaxRow, existingMaxCol)

----------------------------------------------------------------------------
(* GET /excel/preview: the grid part *)

PreviewGrid(ws) ==
  LET maxRow == OrElse(OrElse(ActualRowCount(ws), RowCount(ws)), 0)
      maxCol == OrElse(ActualColumnCount(ws), ColumnsLength(ws))
      safeRowCount == Max2(maxRow, 1)
      safeColCount == Max2(maxCol, 1)
  IN  [preview |-> [r \in 1..safeRowCount |-> [c \in 1..safeColCount |-> ws.v[<<r, c>>]]],
       rows |-> maxRow, cols |-> maxCol]

----------------------------------------------------------------------------
(* Configuration, users, storage keys *)

Users == {"u1", "u2"}
NoUser == "none"
OWNER_EMAIL == "owner@x"
AuthEmail(u) == IF u = "u2" THEN OWNER_EMAIL ELSE "u1@x"
Undefined == "undefined"

EXCEL_FILE_KEY == <<"master.xlsx">>
USER_FILES_PREFIX == "users"
NoKey == <<>>
UserKey(u) == <<USER_FILES_PREFIX, u, "uploaded.xlsx">>

SheetNames == {"S"}

\* a stored workbook: its worksheets in order
Xlsx(sheets) == [kind |-> "xlsx", sheets |-> sheets]
SheetOf(name, v) == [name |-> name, v |-> v, rows |-> RowsWithValues(v)]
OneCell(val) == [p \in Cells |-> IF p = <<1, 1>> THEN val ELSE Null]

Names(sheets) == [i \in 1..Len(sheets) |-> sheets[i].name]
HasSheet(sheets, name) == \E i \in 1..Len(sheets) : sheets[i].name = name
IndexOfSheet(sheets, name) == CHOOSE i \in 1..Len(sheets) : sheets[i].name = name
GetWorksheet(sheets, name) == sheets[IndexOfSheet(sheets, name)]
RemoveWorksheet(sheets, name) == SelectSeq(sheets, LAMBDA s : s.name # name)
AddWorksheet(sheets, s) == Append(sheets, s)
ReplaceWorksheet(sheets, s) == [i \in 1..Len(sheets) |-> IF sheets[i].name = s.name THEN s ELSE sheets[i]]
\* writeBuffer of a loaded workbook whose other sheets were not touched
Rewrite(sheets) == [i \in 1..Len(sheets) |-> WriteSheet(LoadSheet(sheets[i]))]

Put(st, key, blob) == [k \in DOMAIN st \cup {key} |-> IF k = key THEN blob ELSE st[k]]

----------------------------------------------------------------------------
(* Auth middleware and identity resolution *)

\* requireAuth: the bearer token names a user, or the request is answered 401
\* (variant) only the presence of a bearer token is checked
RequireAuthPresence(cred) ==
  IF cred.kind = "missing" THEN [ok |-> FALSE, user |-> NoUser]
  ELSE [ok |-> TRUE, user |-> IF cred.kind = "valid" THEN cred.uid ELSE "u1"]

RequireAuth(cred) ==
  IF cred.kind = "missing" THEN [ok |-> FALSE, user |-> NoUser]
  ELSE IF cred.kind # "valid" THEN [ok |-> FALSE, user |-> NoUser]
  ELSE [ok |-> TRUE, user |-> cred.uid]

\* from('profiles').select(...).eq('id', id).single()
LookupProfile(uid, lk) ==
  IF lk = "throw" THEN [thrown |-> TRUE, error |-> TRUE, hasData |-> FALSE, data |-> profiles[uid]]
  ELSE IF lk = "error" \/ ~profiles[uid].exists
    THEN [thrown |-> FALSE, error |-> TRUE, hasData |-> FALSE, data |-> profiles[uid]]
  ELSE [thrown |-> FALSE, error |-> FALSE, hasData |-> TRUE, data |-> profiles[uid]]

\* JavaScript a || b on strings and keys
Or(a, b) == IF a = Null \/ a = "" THEN b ELSE a
KeyOr(k, d) == IF k = NoKey THEN d ELSE k

\* (variant) a failed lookup resolves to the paid plan
AttachUserPlanAndFileOpen(uid, lk) ==
  LET r == LookupProfile(uid, lk) IN
  IF r.thrown \/ r.error
    THEN [uid |-> uid, userPlan |-> "paid", userRole |-> "user",
          userEmail |-> Or(AuthEmail(uid), ""), fileKey |-> EXCEL_FILE_KEY]
  ELSE [uid |-> uid, userPlan |-> Or(r.data.plan, "free"), userRole |-> Or(r.data.role, "user"),
        userEmail |-> Or(r.data.email, Or(AuthEmail(uid), "")),
        fileKey |-> KeyOr(r.data.user_file_key, UserKey(uid))]

AttachUserPlanAndFile(uid, lk) ==
  LET r == LookupProfile(uid, lk) IN
  IF r.thrown
    THEN [uid |-> uid, userPlan |-> "free", userRole |-> "user",
          userEmail |-> Or(AuthEmail(uid), ""), fileKey |-> EXCEL_FILE_KEY]
  ELSE IF r.error
    THEN [uid |-> uid, userPlan |-> "free", userRole |-> "user",
          userEmail |-> Or(AuthEmail(uid), ""), fileKey |-> EXCEL_FILE_KEY]
  ELSE [uid |-> uid, userPlan |-> Or(r.data.plan, "free"), userRole |-> Or(r.data.role, "user"),
        userEmail |-> Or(r.data.email, Or(AuthEmail(uid), "")),
        fileKey |-> KeyOr(r.data.user_file_key, UserKey(uid))]

\* policies.js attachUserContext; it resolves no email
PolicyAttachUserContext(uid, lk) ==
  LET r == LookupProfile(uid, lk) IN
  IF r.thrown
    THEN [uid |-> uid, userPlan |-> "free", userRole |-> "user",
          userEmail |-> Undefined, fileKey |-> EXCEL_FILE_KEY]
  ELSE IF r.error \/ ~r.hasData
    THEN [uid |-> uid, userPlan |-> "free", userRole |-> "user",
          userEmail |-> Undefined, fileKey |-> EXCEL_FILE_KEY]
  ELSE [uid |-> uid, userPlan |-> Or(r.data.plan, "free"), userRole |-> Or(r.data.role, "user"),
        userEmail |-> Undefined,
        fileKey |-> KeyOr(r.data.user_file_key, UserKey(uid))]

\* the attachUserContext of app.js: it sets req.context only
StubContext(uid) ==
  [uid |-> uid, userPlan |-> Undefined, userRole |-> Undefined,
   userEmail |-> Undefined, fileKey |-> NoKey]

NoContext ==
  [uid |-> NoUser, userPlan |-> Undefined, userRole |-> Undefined,
   userEmail |-> Undefined, fileKey |-> NoKey]

----------------------------------------------------------------------------
(* Quota: count of the user's audit rows of the current UTC day *)

\* (variant) the count without the created_at filter
QuotaCountAllDays(uid, actions) ==
  Cardinality({i \in 1..Len(audit) : audit[i].user_id = uid /\ audit[i].action \in actions})

QuotaCount(uid, actions) ==
  Cardinality({i \in 1..Len(audit) :
                 /\ audit[i].user_id = uid
                 /\ audit[i].action \in actions
                 /\ audit[i].day >= day})

AuditRow(ctx, action, sheet) ==
  [user_id |-> ctx.uid, email |-> ctx.userEmail, action |-> action, sheet_name |-> sheet, day |-> day]

----------------------------------------------------------------------------
(* Outcome of a handler: the response and the state it leaves *)

NoBody == [none |-> TRUE]

Outcome(status, err, key, newStore, newAudit, body, gates, reads, writes) ==
  [status |-> status, err |-> err, key |-> key, store |-> newStore, audit |-> newAudit,
   profiles |-> profiles, bodies |-> {body}, gates |-> gates, reads |-> reads, writes |-> writes,
   events |-> <<>>, payments |-> payments]

\* broadcastSSE(event, ...) on the way to the response
Broadcast(out, event) == [out EXCEPT !.events = Append(@, event)]

\* an error response: nothing stored, nothing audited
Reject(status, err, key, gates, reads, writes) ==
  Outcome(status, err, key, store, audit, NoBody, gates, reads, writes)

\* getBufferFromStorage: the blob, or an error when the object is absent or the call fails
Download(key, fault) ==
  IF fault = "download" \/ key \notin DOMAIN store
    THEN [error |-> TRUE, blob |-> Xlsx(<<>>)]
    ELSE [error |-> FALSE, blob |-> store[key]]

\* loadWorkbook throws on bytes that are no xlsx file
Loads(blob) == blob.kind = "xlsx"

\* updateBufferToStorage / putBufferToStorage
UploadFails(fault) == fault = "upload"

\* storage update replaces an existing object only: it fails on a missing one
UpdateFails(key, fault) == fault = "upload" \/ key \notin DOMAIN store

Premium(ctx) == ~(ctx.userPlan # "paid" /\ ctx.userRole # "superadmin" /\ ctx.userEmail # OWNER_EMAIL)

----------------------------------------------------------------------------
(* POST /excel/add-sheet *)

Perms(s) ==
  {p \in [1..Len(s) -> {s[i] : i \in 1..Len(s)}] :
     \A i \in 1..Len(s) : \E j \in 1..Len(s) : p[j] = s[i]}

AddSheetKey(ctx) == IF ctx.userRole = "superadmin" THEN EXCEL_FILE_KEY ELSE ctx.fileKey

AddSheetQuota(ctx) == QuotaCount(ctx.uid, {"add_sheet"}) >= 3

\* the workbook the handler works on: the stored one, or a new one with Sheet1
AddSheetBase(dl) ==
  IF dl.error THEN <<WriteSheet(NewWorksheet("Sheet1"))>> ELSE Rewrite(dl.blob.sheets)

AddSheetApply(dl, name, overwrite) ==
  LET base == AddSheetBase(dl)
      kept == IF HasSheet(base, name) /\ overwrite THEN RemoveWorksheet(base, name) ELSE base
  IN  AddWorksheet(kept, SheetOf(name, OneCell(Marker)))

AddSheetHandler(ctx, name, overwrite, fault) ==
  IF name = "" THEN Reject(400, "name required", NoKey, {}, {}, {})
  ELSE IF ctx.userPlan = "free" /\ AddSheetQuota(ctx)
    THEN Reject(403, "quota", NoKey, {"quota"}, {}, {})
  ELSE
    LET gates == IF ctx.userPlan = "free" THEN {"quota"} ELSE {}
        key == AddSheetKey(ctx)
        dl == Download(key, fault)
    IN
    IF key = NoKey THEN Reject(404, "no key", NoKey, gates, {}, {})
    ELSE IF ~dl.error /\ ~Loads(dl.blob) THEN Reject(500, "unexpected", key, gates, {key}, {})
    ELSE IF HasSheet(AddSheetBase(dl), name) /\ ~overwrite
      THEN Reject(400, "conflict", key, gates, {key}, {})
    ELSE IF UpdateFails(key, fault) THEN Reject(500, "upload", key, gates, {key}, {key})
    ELSE
      LET out == AddSheetApply(dl, name, overwrite)
          rest == SelectSeq(Names(out), LAMBDA n : n # name)
      IN  [Broadcast(Outcome(200, "", key, Put(store, key, Xlsx(out)),
                             Append(audit, AuditRow(ctx, "add_sheet", name)),
                             NoBody, gates, {key}, {key}), "excel:add_sheet")
            EXCEPT !.bodies = {[sheet |-> name, sheets |-> <<name>> \o r] : r \in Perms(rest)}]

----------------------------------------------------------------------------
(* POST /excel/delete-sheet *)

DeleteSheetKey(ctx) == IF ctx.userRole = "superadmin" THEN EXCEL_FILE_KEY ELSE ctx.fileKey

DeleteSheetQuota(ctx) ==
  QuotaCount(ctx.uid, {"save_all", "delete_sheet", "edit_sheet", "add_sheet"}) >= 3

\* (variant) the audit row is written before the upload is attempted
DeleteSheetHandlerAuditFirst(ctx, name, fault) ==
  IF name = "" THEN Reject(400, "name required", NoKey, {}, {}, {})
  ELSE IF ctx.userPlan = "free" /\ DeleteSheetQuota(ctx)
    THEN Reject(403, "quota", NoKey, {"quota"}, {}, {})
  ELSE
    LET gates == IF ctx.userPlan = "free" THEN {"quota"} ELSE {}
        key == DeleteSheetKey(ctx)
        dl == Download(key, fault)
    IN
    IF key = NoKey THEN Reject(404, "no key", NoKey, gates, {}, {})
    ELSE IF dl.error THEN Reject(404, "workbook not found", key, gates, {key}, {})
    ELSE IF ~Loads(dl.blob) THEN Reject(500, "unexpected", key, gates, {key}, {})
    ELSE IF ~HasSheet(dl.blob.sheets, name) THEN Reject(400, "sheet not found", key, gates, {key}, {})
    ELSE IF UpdateFails(key, fault)
      THEN Outcome(500, "upload", key, store, Append(audit, AuditRow(ctx, "delete_sheet", name)),
                   NoBody, gates, {key}, {key})
    ELSE
      LET out == RemoveWorksheet(Rewrite(dl.blob.sheets), name)
      IN  Broadcast(Outcome(200, "", key, Put(store, key, Xlsx(out)),
                            Append(audit, AuditRow(ctx, "delete_sheet", name)),
                            [deleted |-> name, sheets |-> Names(out)], gates, {key}, {key}),
                    "excel:delete_sheet")

DeleteSheetHandler(ctx, name, fault) ==
  IF name = "" THEN Reject(400, "name required", NoKey, {}, {}, {})
  ELSE IF ctx.userPlan = "free" /\ DeleteSheetQuota(ctx)
    THEN Reject(403, "quota", NoKey, {"quota"}, {}, {})
  ELSE
    LET gates == IF ctx.userPlan = "free" THEN {"quota"} ELSE {}
        key == DeleteSheetKey(ctx)
        dl == Download(key, fault)
    IN
    IF key = NoKey THEN Reject(404, "no key", NoKey, gates, {}, {})
    ELSE IF dl.error THEN Reject(404, "workbook not found", key, gates, {key}, {})
    ELSE IF ~Loads(dl.blob) THEN Reject(500, "unexpected", key, gates, {key}, {})
    ELSE IF ~HasSheet(dl.blob.sheets, name) THEN Reject(400, "sheet not found", key, gates, {key}, {})
    ELSE IF UpdateFails(key, fault) THEN Reject(500, "upload", key, gates, {key}, {key})
    ELSE
      LET out == RemoveWorksheet(Rewrite(dl.blob.sheets), name)
      IN  Broadcast(Outcome(200, "", key, Put(store, key, Xlsx(out)),
                            Append(audit, AuditRow(ctx, "delete_sheet", name)),
                            [deleted |-> name, sheets |-> Names(out)], gates, {key}, {key}),
                    "excel:delete_sheet")

----------------------------------------------------------------------------
(* GET /excel/get *)

GetCellKey(ctx, scope) ==
  IF ctx.userRole = "superadmin" /\ scope = "master" THEN EXCEL_FILE_KEY ELSE ctx.fileKey

GetCellQuota(ctx) ==
  QuotaCount(ctx.uid, {"get_cell", "save_all", "delete_sheet", "add_sheet"}) >= 3

GetCellHandler(ctx, sheet, cell, scope, fault) ==
  IF sheet = "" THEN Reject(400, "sheet and cell required", NoKey, {}, {}, {})
  ELSE IF ctx.userPlan = "free" /\ GetCellQuota(ctx)
    THEN Reject(403, "quota", NoKey, {"quota"}, {}, {})
  ELSE
    LET gates == IF ctx.userPlan = "free" THEN {"quota"} ELSE {}
        key == GetCellKey(ctx, scope)
        dl == Download(key, fault)
    IN
    IF key = NoKey THEN Reject(404, "no key", NoKey, gates, {}, {})
    ELSE IF dl.error THEN Reject(404, "workbook not found", key, gates, {key}, {})
    ELSE IF ~Loads(dl.blob) THEN Reject(500, "unexpected", key, gates, {key}, {})
    ELSE IF ~HasSheet(dl.blob.sheets, sheet) THEN Reject(400, "sheet not found", key, gates, {key}, {})
    ELSE Outcome(200, "", key, store, Append(audit, AuditRow(ctx, "get_cell", sheet)),
                 [sheet |-> sheet, cell |-> cell,
                  value |-> GetWorksheet(dl.blob.sheets, sheet).v[cell], source |-> key],
                 gates, {key}, {})

----------------------------------------------------------------------------
(* GET /excel/sheets *)

MutatingActions == {"save_all", "add_sheet", "delete_sheet"}

\* [...new Set([...a, ...b])]
UnionSeq(a, b) == a \o SelectSeq(b, LAMBDA n : \A i \in 1..Len(a) : a[i] # n)

\* (variant) the sheet of the user's oldest such row
OldestSheet(uid) ==
  LET idx == {i \in 1..Len(audit) : audit[i].user_id = uid /\ audit[i].action \in MutatingActions}
  IN  IF idx = {} THEN Null ELSE Or(audit[CHOOSE i \in idx : \A j \in idx : i <= j].sheet_name, Null)

\* the sheet of the user's newest audit row among the mutating actions, or Null
LatestSheet(uid) ==
  LET idx == {i \in 1..Len(audit) : audit[i].user_id = uid /\ audit[i].action \in MutatingActions}
  IN  IF idx = {} THEN Null ELSE Or(audit[SetMax(idx)].sheet_name, Null)

\* splice(latestIndex, 1) then unshift(latest)
PinLatest(sheets, latest) ==
  IF Len(sheets) > 0 /\ latest # Null /\ (\E i \in 1..Len(sheets) : sheets[i] = latest)
    THEN <<latest>> \o SelectSeq(sheets, LAMBDA n : n # latest)
    ELSE sheets

\* (variant) the pinned order is also written back to the caller's workbook
ListSheetsHandlerPersist(ctx, fault) ==
  LET key == ctx.fileKey
      dl == Download(key, fault)
      latest == LatestSheet(ctx.uid)
  IN
  IF key = NoKey THEN Reject(404, "workbook not found", NoKey, {}, {}, {})
  ELSE IF dl.error THEN Reject(404, "workbook not found", key, {}, {key}, {})
  ELSE IF ~Loads(dl.blob) THEN Reject(500, "unexpected", key, {}, {key}, {})
  ELSE
    LET own == Names(dl.blob.sheets)
        pinned == IF latest \in {own[i] : i \in 1..Len(own)}
                    THEN <<GetWorksheet(dl.blob.sheets, latest)>>
                           \o SelectSeq(dl.blob.sheets, LAMBDA w : w.name # latest)
                    ELSE dl.blob.sheets
    IN  Outcome(200, "", key, [store EXCEPT ![key] = Xlsx(pinned)], audit,
                [sheets |-> PinLatest(own, latest)], {}, {key}, {key})

ListSheetsHandler(ctx, fault) ==
  LET key == ctx.fileKey
      dl == Download(key, fault)
      master == Download(EXCEL_FILE_KEY, "none")
      merge == ctx.userRole = "superadmin"
      reads == IF merge THEN {key, EXCEL_FILE_KEY} ELSE {key}
  IN
  IF key = NoKey THEN Reject(404, "workbook not found", NoKey, {}, {}, {})
  ELSE IF dl.error THEN Reject(404, "workbook not found", key, {}, {key}, {})
  ELSE IF ~Loads(dl.blob) THEN Reject(500, "unexpected", key, {}, {key}, {})
  ELSE IF merge /\ ~master.error /\ ~Loads(master.blob) THEN Reject(500, "unexpected", key, {}, reads, {})
  ELSE
    LET own == Names(dl.blob.sheets)
        sheets == IF merge /\ ~master.error THEN UnionSeq(own, Names(master.blob.sheets)) ELSE own
    IN  Outcome(200, "", key, store, audit, [sheets |-> PinLatest(sheets, LatestSheet(ctx.uid))],
                {}, reads, {})

----------------------------------------------------------------------------
(* GET /excel/latest *)

\* index is 0 when the latest sheet is pinned; NoIndex stands for null
NoIndex == -1

LatestHandler(ctx, fault) ==
  LET latest == LatestSheet(ctx.uid)
      rows == {i \in 1..Len(audit) : audit[i].user_id = ctx.uid /\ audit[i].action \in MutatingActions}
      key == ctx.fileKey
      dl == Download(key, fault)
      master == Download(EXCEL_FILE_KEY, "none")
      merge == ctx.userRole = "superadmin"
      reads == IF merge THEN {key, EXCEL_FILE_KEY} ELSE {key}
  IN
  IF rows = {} THEN Outcome(200, "", NoKey, store, audit, [sheet |-> Null, index |-> NoIndex], {}, {}, {})
  ELSE IF key = NoKey
    THEN Outcome(200, "", NoKey, store, audit, [sheet |-> latest, index |-> NoIndex], {}, {}, {})
  ELSE IF dl.error
    THEN Outcome(200, "", key, store, audit, [sheet |-> latest, index |-> NoIndex], {}, {key}, {})
  ELSE IF ~Loads(dl.blob) THEN Reject(500, "unexpected", key, {}, {key}, {})
  ELSE IF merge /\ ~master.error /\ ~Loads(master.blob) THEN Reject(500, "unexpected", key, {}, reads, {})
  ELSE
    LET own == Names(dl.blob.sheets)
        sheets == IF merge /\ ~master.error THEN UnionSeq(own, Names(master.blob.sheets)) ELSE own
        pinned == Len(sheets) > 0 /\ latest # Null /\ (\E i \in 1..Len(sheets) : sheets[i] = latest)
    IN  Outcome(200, "", key, store, audit,
                [sheet |-> latest, index |-> IF pinned THEN 0 ELSE NoIndex], {}, reads, {})

----------------------------------------------------------------------------
(* POST /excel/overwrite *)

OverwriteMarker == "Overwritten sheet"

OverwriteApply(dl, name) ==
  AddWorksheet(RemoveWorksheet(Rewrite(dl.blob.sheets), name), SheetOf(name, OneCell(OverwriteMarker)))

OverwriteHandler(ctx, name, fault) ==
  LET key == ctx.fileKey
      dl == Download(key, fault)
  IN
  IF name = "" THEN Reject(400, "name required", NoKey, {}, {}, {})
  ELSE IF key = NoKey \/ dl.error THEN Reject(404, "workbook not found", key, {}, {key}, {})
  ELSE IF ~Loads(dl.blob) THEN Reject(500, "unexpected", key, {}, {key}, {})
  ELSE IF UpdateFails(key, fault) THEN Reject(500, "upload", key, {}, {key}, {key})
  ELSE Outcome(200, "", key, Put(store, key, Xlsx(OverwriteApply(dl, name))),
               Append(audit, AuditRow(ctx, "overwrite_sheet", name)),
               [success |-> TRUE], {}, {key}, {key})

----------------------------------------------------------------------------
(* POST /excel/save-all *)

maxRowsSaveAll == 5000

SaveAllQuota(ctx) == QuotaCount(ctx.uid, {"save_all"}) >= 3

SaveAllKey(ctx) == ctx.fileKey

\* (variant) the edit applied to the workbook as stored at upload time
SaveAllApplyFresh(dl, sheet, data) ==
  LET base == Rewrite(store[UserKey("u1")].sheets)
      ws == IF HasSheet(base, sheet) THEN LoadSheet(GetWorksheet(base, sheet)) ELSE NewWorksheet(sheet)
      saved == WriteSheet(SaveGrid(ws, data))
  IN  IF HasSheet(base, sheet) THEN ReplaceWorksheet(base, saved) ELSE AddWorksheet(base, saved)

\* the workbook to upload: the sheet is taken from the download or added to it
SaveAllApply(dl, sheet, data) ==
  LET base == IF dl.error THEN <<>> ELSE Rewrite(dl.blob.sheets)
      ws == IF HasSheet(base, sheet) THEN LoadSheet(GetWorksheet(base, sheet)) ELSE NewWorksheet(sheet)
      saved == WriteSheet(SaveGrid(ws, data))
  IN  IF HasSheet(base, sheet) THEN ReplaceWorksheet(base, saved) ELSE AddWorksheet(base, saved)

SaveAllHandler(ctx, sheet, data, fault) ==
  IF sheet = "" \/ ~data.given THEN Reject(400, "sheet and data required", NoKey, {}, {}, {})
  ELSE IF ctx.userPlan = "free" /\ SaveAllQuota(ctx)
    THEN Reject(403, "quota", NoKey, {"quota"}, {}, {})
  ELSE IF ctx.userPlan = "free" /\ (IF data.isArray THEN Len(data.rows) ELSE 0) > maxRowsSaveAll
    THEN Reject(403, "row cap", NoKey, {"quota"}, {}, {})
  ELSE
    LET gates == IF ctx.userPlan = "free" THEN {"quota"} ELSE {}
        key == SaveAllKey(ctx)
        dl == Download(key, fault)
    IN
    IF key = NoKey THEN Reject(404, "no key", NoKey, gates, {}, {})
    ELSE IF ~dl.error /\ ~Loads(dl.blob) THEN Reject(500, "unexpected", key, gates, {key}, {})
    ELSE IF UpdateFails(key, fault) THEN Reject(500, "upload", key, gates, {key}, {key})
    ELSE Broadcast(Outcome(200, "", key, Put(store, key, Xlsx(SaveAllApply(dl, sheet, data))),
                           Append(audit, AuditRow(ctx, "save_all", sheet)),
                           [success |-> TRUE], gates, {key}, {key}), "excel:save_all")

----------------------------------------------------------------------------
(* GET /excel/preview *)

PreviewHandler(ctx, sheet, fault) ==
  LET key == ctx.fileKey
      dl == Download(key, fault)
  IN
  IF sheet = "" THEN Reject(400, "sheet required", NoKey, {}, {}, {})
  ELSE IF key = NoKey THEN Reject(404, "no key", NoKey, {}, {}, {})
  ELSE IF dl.error THEN Reject(404, "workbook not found", key, {}, {key}, {})
  ELSE IF ~Loads(dl.blob) THEN Reject(500, "unexpected", key, {}, {key}, {})
  ELSE IF ~HasSheet(dl.blob.sheets, sheet) THEN Reject(400, "sheet not found", key, {}, {key}, {})
  ELSE LET g == PreviewGrid(LoadSheet(GetWorksheet(dl.blob.sheets, sheet)))
       IN  Outcome(200, "", key, store, audit,
                   [sheet |-> sheet, preview |-> g.preview, rows |-> g.rows, cols |-> g.cols],
                   {}, {key}, {})

----------------------------------------------------------------------------
(* GET /excel/public and GET /excel/download *)

FreeBlocked(ctx) ==
  ctx.userPlan = "free" /\ ctx.userRole # "superadmin" /\ ctx.userEmail # OWNER_EMAIL

DownloadKey(ctx) == IF ctx.userRole = "superadmin" THEN EXCEL_FILE_KEY ELSE ctx.fileKey

PublicHandler(ctx) ==
  IF FreeBlocked(ctx) THEN Reject(403, "premium", NoKey, {"plan"}, {}, {})
  ELSE Outcome(200, "", DownloadKey(ctx), store, audit, [url |-> DownloadKey(ctx)], {"plan"}, {}, {})

DownloadHandler(ctx, fault) ==
  LET key == DownloadKey(ctx)
      dl == Download(key, fault)
  IN
  IF FreeBlocked(ctx) THEN Reject(403, "premium", NoKey, {"plan"}, {}, {})
  ELSE IF dl.error THEN Reject(404, "workbook not found", key, {"plan"}, {key}, {})
  ELSE Outcome(200, "", key, store, audit, [blob |-> dl.blob], {"plan"}, {key}, {})

----------------------------------------------------------------------------
(* GET /excel/export/csv and GET /excel/export/pdf *)

ExportBlocked(ctx) == ctx.userPlan = "free"

\* the cells an export walks: rows 1..maxRow, columns 1..maxCol
ExportGrid(ws) ==
  LET maxRow == OrElse(ActualRowCount(ws), RowCount(ws))
      maxCol == OrElse(ActualColumnCount(ws), ColumnsLength(ws))
  IN  [r \in 1..maxRow |-> [c \in 1..maxCol |-> ws.v[<<r, c>>]]]

ExportHandler(ctx, action, sheet, fault) ==
  LET key == ctx.fileKey
      dl == Download(key, fault)
  IN
  IF sheet = "" THEN Reject(400, "sheet required", NoKey, {}, {}, {})
  ELSE IF ExportBlocked(ctx) THEN Reject(403, "premium", NoKey, {"plan"}, {}, {})
  ELSE IF dl.error THEN Reject(404, "workbook not found", key, {"plan"}, {key}, {})
  ELSE IF ~Loads(dl.blob) THEN Reject(500, "unexpected", key, {"plan"}, {key}, {})
  ELSE IF ~HasSheet(dl.blob.sheets, sheet) THEN Reject(400, "sheet not found", key, {"plan"}, {key}, {})
  ELSE Outcome(200, "", key, store, Append(audit, AuditRow(ctx, action, sheet)),
               [sheet |-> sheet, grid |-> ExportGrid(LoadSheet(GetWorksheet(dl.blob.sheets, sheet)))],
               {"plan"}, {key}, {})

ExportCsvHandler(ctx, sheet, fault) == ExportHandler(ctx, "export_csv", sheet, fault)
ExportPdfHandler(ctx, sheet, fault) == ExportHandler(ctx, "export_pdf_single", sheet, fault)

----------------------------------------------------------------------------
(* GET /audit/list *)

AuditBlocked(ctx) == ctx.userPlan = "free"

Reverse(s) == [i \in 1..Len(s) |-> s[Len(s) + 1 - i]]

\* .range(offset, offset + limit - 1)
Range(s, offset, limit) ==
  SubSeq(s, offset + 1, IF offset + limit <= Len(s) THEN offset + limit ELSE Len(s))

\* (variant) the user filter is never applied
AuditVisibleAll(ctx) == audit

AuditVisible(ctx) ==
  IF ctx.userRole # "superadmin" /\ ctx.userEmail # OWNER_EMAIL
    THEN SelectSeq(audit, LAMBDA e : e.user_id = ctx.uid)
    ELSE audit

\* the row as the audit table of the frontend receives it
Entry(row) ==
  [ts |-> row.day, actor |-> Or(row.email, row.user_id), action |-> row.action,
   sheet |-> row.sheet_name, email |-> Or(row.email, Null)]

Entries(rows) == [i \in 1..Len(rows) |-> Entry(rows[i])]

AuditListHandler(ctx, limit, offset) ==
  IF AuditBlocked(ctx) THEN Reject(403, "premium", NoKey, {"plan"}, {}, {})
  ELSE Outcome(200, "", NoKey, store, audit,
               [entries |-> Entries(Range(Reverse(AuditVisible(ctx)), offset, limit))],
               {"plan"}, {}, {})

----------------------------------------------------------------------------
(* POST /excel/upload *)

FileName(file) == file.base \o "." \o file.ext
Candidate(file, i) == file.base \o " " \o ToString(i) \o "." \o file.ext

\* storage.list of the user's folder
ListFolder(uid) == {k[3] : k \in {q \in DOMAIN store : Len(q) = 3 /\ q[1] = USER_FILES_PREFIX /\ q[2] = uid}}

UploadKey(uid, file) ==
  LET names == ListFolder(uid) IN
  IF FileName(file) \notin names THEN <<USER_FILES_PREFIX, uid, FileName(file)>>
  ELSE LET i == CHOOSE n \in 1..(Cardinality(names) + 1) :
                  /\ Candidate(file, n) \notin names
                  /\ \A m \in 1..(n - 1) : Candidate(file, m) \in names
       IN  <<USER_FILES_PREFIX, uid, Candidate(file, i)>>

StartsWithUserPrefix(key, uid) == Len(key) >= 3 /\ key[1] = USER_FILES_PREFIX /\ key[2] = uid

\* the bytes stored: the uploaded workbook (with a default sheet when it has none),
\* the workbook built from CSV rows, or the raw PDF
UploadBlob(file) ==
  IF file.ext = "xlsx"
    THEN IF Len(file.sheets) = 0 THEN Xlsx(<<SheetOf("Sheet1", OneCell(Marker))>>) ELSE Xlsx(file.sheets)
  ELSE IF file.ext = "csv" THEN Xlsx(file.sheets)
  ELSE [kind |-> "pdf", sheets |-> <<>>]

UploadSheetNames(file) ==
  IF file.ext = "pdf" THEN <<file.base>> ELSE Names(UploadBlob(file).sheets)

UploadHandler(ctx, file, fault) ==
  LET isFree == ctx.userPlan = "free"
      alreadyHasFile == ctx.fileKey # NoKey /\ StartsWithUserPrefix(ctx.fileKey, ctx.uid)
      key == UploadKey(ctx.uid, file)
  IN
  IF ~file.given THEN Reject(400, "no file", NoKey, {}, {}, {})
  ELSE IF file.ext \in {"csv", "pdf"} /\ isFree THEN Reject(403, "premium", NoKey, {"plan"}, {}, {})
  ELSE IF file.ext = "xlsx" /\ isFree /\ alreadyHasFile THEN Reject(403, "one file", NoKey, {"plan"}, {}, {})
  ELSE IF file.ext \notin {"xlsx", "csv", "pdf"} THEN Reject(400, "unsupported", NoKey, {"plan"}, {}, {})
  ELSE IF file.corrupt THEN Reject(400, "parse failed", NoKey, {"plan"}, {}, {})
  ELSE IF UploadFails(fault) THEN Reject(500, "upload", key, {"plan"}, {}, {key})
  ELSE [Broadcast(Outcome(200, "", key, Put(store, key, UploadBlob(file)),
                Append(audit, AuditRow(ctx, "upload_file",
                   IF Len(UploadSheetNames(file)) > 0 THEN UploadSheetNames(file)[1] ELSE Null)),
                [fileKey |-> key, sheetNames |-> UploadSheetNames(file)], {"plan"}, {}, {key}),
                "excel:upload")
         EXCEPT !.profiles = [profiles EXCEPT ![ctx.uid].user_file_key =
                                 IF profiles[ctx.uid].exists THEN key ELSE @]]

----------------------------------------------------------------------------
(* Serving a request: middleware chain, handler, response *)

Unauthorized == Reject(401, "unauthorized", NoKey, {}, {}, {})

\* the data of a save-all body
ArrRow(cells) == [isArray |-> TRUE, cells |-> cells, scalar |-> Null]
ScalarRow(x) == [isArray |-> FALSE, cells |-> <<>>, scalar |-> x]
Data(rows) == [given |-> TRUE, isArray |-> TRUE, rows |-> rows]
NoData == [given |-> FALSE, isArray |-> FALSE, rows |-> <<>>]
NotArray == [given |-> TRUE, isArray |-> FALSE, rows |-> <<>>]

\* what the request carried, as far as the routes read it
Args(sheet, data, scope, overwrite) ==
  [sheet |-> sheet, data |-> data, scope |-> scope, overwrite |-> overwrite]

Response(route, cred, lk, ctx, args, out, body) ==
  [route |-> route, cred |-> cred, args |-> args, uid |-> ctx.uid,
   lookupFailed |-> IF ctx.uid = NoUser \/ lk = "skip" THEN FALSE
                    ELSE LookupProfile(ctx.uid, lk).error,
   role |-> ctx.userRole, plan |-> ctx.userPlan, email |-> ctx.userEmail,
   fileKey |-> ctx.fileKey,
   policy |-> IF ctx.uid = NoUser \/ lk = "skip" THEN NoContext
              ELSE PolicyAttachUserContext(ctx.uid, lk),
   status |-> out.status, err |-> out.err, key |-> out.key, body |-> body,
   gates |-> out.gates, reads |-> out.reads, writes |-> out.writes,
   audited |-> out.audit # audit, events |-> out.events]

\* a client that keeps no notes
\* no realtime connection is open
NoSockets == <<>>

\* no push stream was opened
NoSse == [now |-> 0, streams |-> <<>>, registry |-> <<>>]

\* the logs bucket is empty
NoLogs == <<>>

\* broadcastSSE for each event in turn: res.write on every entry of sseClients
Fanout(s, events) ==
  [s EXCEPT !.streams =
     [i \in 1..Len(s.streams) |->
        IF i \in {s.registry[k] : k \in DOMAIN s.registry}
          THEN [s.streams[i] EXCEPT !.got = @ \o events] ELSE s.streams[i]]]

NoClient == [recording |-> FALSE, listed |-> FALSE, sheets |-> <<>>, calls |-> <<>>]

\* a recording client notes each sheet list it receives and the calls it makes after it
Remember(c, resp) ==
  IF ~c.recording THEN c
  ELSE IF resp.route = "sheets" /\ resp.status = 200
    THEN [c EXCEPT !.listed = TRUE, !.sheets = resp.body.sheets, !.calls = <<>>]
  ELSE [c EXCEPT !.calls = Append(@, [route |-> resp.route, sheet |-> resp.args.sheet,
                                      status |-> resp.status])]

Respond(route, cred, lk, ctx, args, out) ==
  /\ left > 0
  /\ \E b \in out.bodies : last' = Response(route, cred, lk, ctx, args, out, b)
  /\ client' = Remember(client, last')
  /\ store' = out.store
  /\ audit' = out.audit
  /\ profiles' = out.profiles
  /\ payments' = out.payments
  /\ left' = left - 1
  /\ sse' = Fanout(sse, out.events)
  /\ UNCHANGED <<day, slots, sockets, logs>>

\* requireAuth, attachUserContext, attachUserPlanAndFile, then the route's handler
AddSheet(cred, lk, name, overwrite, fault) ==
  LET a == RequireAuth(cred)
      ctx == AttachUserPlanAndFile(a.user, lk)
  IN  IF ~a.ok THEN Respond("add_sheet", cred, lk, NoContext, Args(name, NoData, "", overwrite), Unauthorized)
      ELSE Respond("add_sheet", cred, lk, ctx, Args(name, NoData, "", overwrite),
                   AddSheetHandler(ctx, name, overwrite, fault))

DeleteSheet(cred, lk, name, fault) ==
  LET a == RequireAuth(cred)
      ctx == AttachUserPlanAndFile(a.user, lk)
  IN  IF ~a.ok THEN Respond("delete_sheet", cred, lk, NoContext, Args(name, NoData, "", FALSE), Unauthorized)
      ELSE Respond("delete_sheet", cred, lk, ctx, Args(name, NoData, "", FALSE),
                   DeleteSheetHandler(ctx, name, fault))

GetCell(cred, lk, sheet, cell, scope, fault) ==
  LET a == RequireAuth(cred)
      ctx == AttachUserPlanAndFile(a.user, lk)
  IN  IF ~a.ok THEN Respond("get_cell", cred, lk, NoContext, Args(sheet, NoData, scope, FALSE), Unauthorized)
      ELSE Respond("get_cell", cred, lk, ctx, Args(sheet, NoData, scope, FALSE),
                   GetCellHandler(ctx, sheet, cell, scope, fault))

ListSheets(cred, lk, fault) ==
  LET a == RequireAuth(cred)
      ctx == AttachUserPlanAndFile(a.user, lk)
  IN  IF ~a.ok THEN Respond("sheets", cred, lk, NoContext, Args("", NoData, "", FALSE), Unauthorized)
      ELSE Respond("sheets", cred, lk, ctx, Args("", NoData, "", FALSE),
                   ListSheetsHandler(ctx, fault))

Latest(cred, lk, fault) ==
  LET a == RequireAuth(cred)
      ctx == AttachUserPlanAndFile(a.user, lk)
  IN  IF ~a.ok THEN Respond("latest", cred, lk, NoContext, Args("", NoData, "", FALSE), Unauthorized)
      ELSE Respond("latest", cred, lk, ctx, Args("", NoData, "", FALSE), LatestHandler(ctx, fault))

Overwrite(cred, lk, name, fault) ==
  LET a == RequireAuth(cred)
      ctx == AttachUserPlanAndFile(a.user, lk)
  IN  IF ~a.ok THEN Respond("overwrite", cred, lk, NoContext, Args(name, NoData, "", FALSE), Unauthorized)
      ELSE Respond("overwrite", cred, lk, ctx, Args(name, NoData, "", FALSE),
                   OverwriteHandler(ctx, name, fault))

SaveAll(cred, lk, sheet, data, fault) ==
  LET a == RequireAuth(cred)
      ctx == AttachUserPlanAndFile(a.user, lk)
  IN  IF ~a.ok THEN Respond("save_all", cred, lk, NoContext, Args(sheet, data, "", FALSE), Unauthorized)
      ELSE Respond("save_all", cred, lk, ctx, Args(sheet, data, "", FALSE),
                   SaveAllHandler(ctx, sheet, data, fault))

Preview(cred, lk, sheet, fault) ==
  LET a == RequireAuth(cred)
      ctx == AttachUserPlanAndFile(a.user, lk)
  IN  IF ~a.ok THEN Respond("preview", cred, lk, NoContext, Args(sheet, NoData, "", FALSE), Unauthorized)
      ELSE Respond("preview", cred, lk, ctx, Args(sheet, NoData, "", FALSE),
                   PreviewHandler(ctx, sheet, fault))

PublicLink(cred, lk) ==
  LET a == RequireAuth(cred)
      ctx == AttachUserPlanAndFile(a.user, lk)
  IN  IF ~a.ok THEN Respond("public", cred, lk, NoContext, Args("", NoData, "", FALSE), Unauthorized)
      ELSE Respond("public", cred, lk, ctx, Args("", NoData, "", FALSE),
                   PublicHandler(ctx))

DownloadWorkbook(cred, lk, fault) ==
  LET a == RequireAuth(cred)
      ctx == AttachUserPlanAndFile(a.user, lk)
  IN  IF ~a.ok THEN Respond("download", cred, lk, NoContext, Args("", NoData, "", FALSE), Unauthorized)
      ELSE Respond("download", cred, lk, ctx, Args("", NoData, "", FALSE),
                   DownloadHandler(ctx, fault))

ExportCsv(cred, lk, sheet, fault) ==
  LET a == RequireAuth(cred)
      ctx == AttachUserPlanAndFile(a.user, lk)
  IN  IF ~a.ok THEN Respond("export_csv", cred, lk, NoContext, Args(sheet, NoData, "", FALSE), Unauthorized)
      ELSE Respond("export_csv", cred, lk, ctx, Args(sheet, NoData, "", FALSE),
                   ExportCsvHandler(ctx, sheet, fault))

ExportPdf(cred, lk, sheet, fault) ==
  LET a == RequireAuth(cred)
      ctx == AttachUserPlanAndFile(a.user, lk)
  IN  IF ~a.ok THEN Respond("export_pdf", cred, lk, NoContext, Args(sheet, NoData, "", FALSE), Unauthorized)
      ELSE Respond("export_pdf", cred, lk, ctx, Args(sheet, NoData, "", FALSE),
                   ExportPdfHandler(ctx, sheet, fault))

AuditList(cred, lk, limit, offset) ==
  LET a == RequireAuth(cred)
      ctx == AttachUserPlanAndFile(a.user, lk)
  IN  IF ~a.ok THEN Respond("audit_list", cred, lk, NoContext, Args("", NoData, "", FALSE), Unauthorized)
      ELSE Respond("audit_list", cred, lk, ctx, Args("", NoData, "", FALSE),
                   AuditListHandler(ctx, limit, offset))

\* the upload route runs requireAuth and the attachUserContext of app.js only
Upload(cred, file, fault) ==
  LET a == RequireAuth(cred)
      ctx == StubContext(a.user)
  IN  IF ~a.ok THEN Respond("upload", cred, "skip", NoContext, Args(FileName(file), NoData, "", FALSE), Unauthorized)
      ELSE Respond("upload", cred, "skip", ctx, Args(FileName(file), NoData, "", FALSE),
                   UploadHandler(ctx, file, fault))

\* UTC midnight passes
Tick ==
  /\ day < MaxDay
  /\ day' = day + 1
  /\ UNCHANGED <<profiles, store, audit, last, slots, left, client, payments, sockets, sse, logs>>

----------------------------------------------------------------------------
(* Inputs *)

Creds ==
  {[kind |-> "valid", uid |-> u] : u \in Users}
    \cup {[kind |-> "missing", uid |-> NoUser], [kind |-> "invalid", uid |-> NoUser]}
Lookups == {"ok", "error", "throw"}
Faults == {"none", "download", "upload"}
Scopes == {"", "master"}

StoredVals == {Null, "a"}
GridVals == {Null, "x"}

SeqsUpTo(S, n) == UNION {[1..k -> S] : k \in 0..n}
GridRows == {ArrRow(c) : c \in SeqsUpTo(GridVals, MaxGridCols)} \cup {ScalarRow("x")}
AllData == {Data(rows) : rows \in SeqsUpTo(GridRows, MaxGridRows)} \cup {NotArray}

\* the sheet contents a stored workbook may have before a save
PriorContents ==
  {v \in [Cells -> StoredVals] : \A p \in Cells : (p[1] > MaxPriorRows \/ p[2] > MaxPriorCols) => v[p] = Null}

Profile(role, plan, email) ==
  [exists |-> TRUE, role |-> role, plan |-> plan, email |-> email, user_file_key |-> NoKey, status |-> "active"]
NoProfile ==
  [exists |-> FALSE, role |-> Null, plan |-> Null, email |-> Null, user_file_key |-> NoKey, status |-> Null]

Workbook0 == Xlsx(<<SheetOf("S", OneCell("a")), SheetOf("T", OneCell("a"))>>)
MasterWorkbook == Xlsx(<<SheetOf("S", OneCell("a"))>>)

NoResponse ==
  [route |-> "none", cred |-> [kind |-> "missing", uid |-> NoUser], uid |-> NoUser,
   lookupFailed |-> FALSE, role |-> Undefined, plan |-> Undefined, email |-> Undefined,
   args |-> Args("", NoData, "", FALSE),
   fileKey |-> NoKey, policy |-> NoContext, status |-> 0, err |-> "", key |-> NoKey,
   body |-> NoBody, gates |-> {}, reads |-> {}, writes |-> {}, audited |-> FALSE,
   events |-> <<>>]

----------------------------------------------------------------------------
(* Spec: every route, served one request at a time *)

SpecData == {NoData, Data(<<ArrRow(<<"x">>)>>)}
SpecFiles ==
  {[given |-> TRUE, base |-> "uploaded", ext |-> "xlsx", corrupt |-> FALSE, sheets |-> <<>>],
   [given |-> TRUE, base |-> "doc", ext |-> "pdf", corrupt |-> FALSE, sheets |-> <<>>]}

\* the backing services before the first request; n requests will be sent
Start(n) ==
  /\ profiles \in {[u \in Users |-> IF u = "u1" THEN p1 ELSE p2] :
                     p1 \in {Profile(r, pl, Null) : r \in {"user", "superadmin"}, pl \in {"free", "paid"}}
                               \cup {NoProfile},
                     p2 \in {Profile("user", pl, OWNER_EMAIL) : pl \in {"free", "paid"}}}
  /\ store = [k \in {EXCEL_FILE_KEY, UserKey("u1")} |->
                IF k = EXCEL_FILE_KEY THEN MasterWorkbook ELSE Workbook0]
  /\ audit = <<>>
  /\ day = 1
  /\ last = NoResponse
  /\ client = NoClient
  /\ payments = <<>>
  /\ sockets = NoSockets
  /\ sse = NoSse
  /\ logs = NoLogs
  /\ slots = <<>>
  /\ left = n

Init == Start(MaxReq)

\* at most one failure (of the profile lookup or of a storage call) per request
Environments == {<<lk, "none">> : lk \in Lookups} \cup {<<"ok", f>> : f \in Faults}

Next ==
  \/ \E cred \in Creds, env \in Environments, name \in SheetNames, overwrite \in BOOLEAN :
       AddSheet(cred, env[1], name, overwrite, env[2])
  \/ \E cred \in Creds, env \in Environments, name \in SheetNames :
       DeleteSheet(cred, env[1], name, env[2])
  \/ \E cred \in Creds, env \in Environments, name \in SheetNames, scope \in Scopes :
       GetCell(cred, env[1], name, <<1, 1>>, scope, env[2])
  \/ \E cred \in Creds, env \in Environments :
       ListSheets(cred, env[1], env[2])
  \/ \E cred \in Creds, env \in Environments, name \in SheetNames, data \in SpecData :
       SaveAll(cred, env[1], name, data, env[2])
  \/ \E cred \in Creds, env \in Environments, name \in SheetNames :
       Preview(cred, env[1], name, env[2])
  \/ \E cred \in Creds, lk \in Lookups :
       PublicLink(cred, lk)
  \/ \E cred \in Creds, env \in Environments :
       DownloadWorkbook(cred, env[1], env[2])
  \/ \E cred \in Creds, env \in Environments, name \in SheetNames :
       ExportCsv(cred, env[1], name, env[2])
  \/ \E cred \in Creds, env \in Environments, name \in SheetNames :
       ExportPdf(cred, env[1], name, env[2])
  \/ \E cred \in Creds, lk \in Lookups, limit \in {1, 100}, offset \in {0, 1} :
       AuditList(cred, lk, limit, offset)
  \/ \E cred \in Creds, fault \in Faults, file \in SpecFiles :
       Upload(cred, file, fault)
  \/ \E cred \in Creds, env \in Environments :
       Latest(cred, env[1], env[2])
  \/ \E cred \in Creds, env \in Environments, name \in SheetNames :
       Overwrite(cred, env[1], name, env[2])

Spec == Init /\ [][Next]_vars

\* SpecAuth: the same routes, for the properties of a single request
InitAuth == Start(MaxAuthReq)
SpecAuth == InitAuth /\ [][Next]_vars

----------------------------------------------------------------------------
(* SpecGrid: one paid user saves grids to, and previews, a sheet whose     *)
(* stored content is any content within the bounds                         *)

GridUser == [kind |-> "valid", uid |-> "u1"]

InitGrid ==
  /\ profiles = [u \in Users |-> IF u = "u1" THEN Profile("user", "paid", Null)
                                 ELSE Profile("user", "paid", OWNER_EMAIL)]
  /\ \E v \in PriorContents :
       store = [k \in {EXCEL_FILE_KEY, UserKey("u1")} |->
                  IF k = EXCEL_FILE_KEY THEN MasterWorkbook ELSE Xlsx(<<SheetOf("S", v)>>)]
  /\ audit = <<>>
  /\ day = 1
  /\ last = NoResponse
  /\ client = NoClient
  /\ payments = <<>>
  /\ sockets = NoSockets
  /\ sse = NoSse
  /\ logs = NoLogs
  /\ slots = <<>>
  /\ left = MaxGridReq

NextGrid ==
  \/ \E data \in AllData : SaveAll(GridUser, "ok", "S", data, "none")
  \/ Preview(GridUser, "ok", "S", "none")

SpecGrid == InitGrid /\ [][NextGrid]_vars

\* a request was served in this step
Served == left' = left - 1

\* the stored content of a sheet of the workbook at a key
StoredV(st, key, sheet) == GetWorksheet(st[key].sheets, sheet).v
StoredHas(st, key, sheet) == key \in DOMAIN st /\ st[key].kind = "xlsx" /\ HasSheet(st[key].sheets, sheet)

\* C1: after a successful save_all(sheet, G), every cell of the sheet that held a
\* non-null value before and lies beyond G's row count or beyond G's longest row
\* holds null in the stored workbook.
C1_ShrinkClearsStale ==
  [][(Served /\ last'.route = "save_all" /\ last'.status = 200
        /\ StoredHas(store, last'.key, last'.args.sheet))
      => LET G == NormalizeGrid(last'.args.data)
             before == StoredV(store, last'.key, last'.args.sheet)
             after == StoredV(store', last'.key, last'.args.sheet)
         IN  \A p \in Cells :
               (before[p] # Null /\ (p[1] > MaxRowIn(G) \/ p[2] > MaxColIn(G))) => after[p] = Null]_vars

\* the grid G padded to a rectangle
Padded(G) == [r \in 1..MaxRowIn(G) |-> [c \in 1..MaxColIn(G) |-> GridAt(G, r, c)]]

\* G holds a value: saving an all-null grid leaves an empty sheet, whose preview
\* is the 1x1 minimum
HasValue(G) == \E r \in 1..Len(G) : \E c \in 1..Len(G[r]) : G[r][c] # Null

\* C2: a preview served right after a successful save_all(sheet, G) of the same
\* sheet returns G padded with null to a rectangle: G's row count, G's longest row.
C2_PreviewAfterSave ==
  [][(Served /\ last.route = "save_all" /\ last.status = 200
        /\ last'.route = "preview" /\ last'.status = 200
        /\ last'.key = last.key /\ last'.args.sheet = last.args.sheet
        /\ HasValue(NormalizeGrid(last.args.data)))
      => last'.body.preview = Padded(NormalizeGrid(last.args.data))]_vars

----------------------------------------------------------------------------
(* Identity and gates, checked on the responses of Spec and SpecAuth *)

Authenticated == last.uid # NoUser

\* C4: with a valid credential the resolved role is superadmin only if the stored
\* profile row says so, the resolved plan is paid only if the stored row says so,
\* and a failed lookup resolves to exactly role=user, plan=free (both resolvers).
C4_NeverWidenPrivilege ==
  (Authenticated /\ last.route # "upload") =>
    LET row == profiles[last.uid] IN
    \A c \in {[role |-> last.role, plan |-> last.plan],
              [role |-> last.policy.userRole, plan |-> last.policy.userPlan]} :
      /\ c.role = "superadmin" => (row.exists /\ row.role = "superadmin")
      /\ c.plan = "paid" => (row.exists /\ row.plan = "paid")
      /\ last.lookupFailed => (c.role = "user" /\ c.plan = "free")

C4_Witness ==
  /\ Authenticated /\ last.lookupFailed
  /\ profiles[last.uid].exists /\ profiles[last.uid].role = "superadmin"
  /\ profiles[last.uid].plan = "paid"
  /\ last.role = "user" /\ last.plan = "free"
  /\ last.policy.userRole = "user" /\ last.policy.userPlan = "free"

\* C5: a failed profile lookup resolves the workbook key to the user's own
\* synthesized path, and no request whose resolved role is not superadmin reads or
\* writes the shared master workbook.
C5_FailedLookupOwnKey ==
  Authenticated =>
    /\ last.lookupFailed => last.fileKey = UserKey(last.uid)
    /\ last.role # "superadmin" => EXCEL_FILE_KEY \notin (last.reads \cup last.writes)

\* C6: without the scope parameter selecting master, a superadmin's add_sheet,
\* delete_sheet, get_cell, save_all and download operate on the superadmin's own key.
C6_MasterOnlyByScope ==
  (Authenticated /\ last.role = "superadmin" /\ last.args.scope # "master"
     /\ last.route \in {"add_sheet", "delete_sheet", "get_cell", "save_all", "download"}
     /\ last.key # NoKey)
    => last.key = last.fileKey

\* C9: download, public link, CSV export, PDF export and audit list deny a caller
\* exactly when the plan is free and the caller is neither superadmin nor the owner.
C9_PremiumGate ==
  (Authenticated /\ last.route \in {"download", "public", "export_csv", "export_pdf", "audit_list"})
    => (last.err = "premium"
          <=> (last.plan = "free" /\ last.role # "superadmin" /\ last.email # OWNER_EMAIL))

GatedRoutes ==
  {"sheets", "preview", "add_sheet", "delete_sheet", "get_cell", "save_all",
   "download", "export_csv", "export_pdf", "upload", "audit_list"}

\* C10: on every gated route a request with a missing or invalid credential is
\* answered 401 before any plan or quota check, and reads no storage, writes no
\* storage and writes no audit row.
C10_UnauthenticatedStopsAtAuth ==
  [][(Served /\ last'.cred.kind # "valid" /\ last'.route \in GatedRoutes)
      => /\ last'.status = 401
         /\ last'.gates = {} /\ last'.reads = {} /\ last'.writes = {} /\ ~last'.audited
         /\ store' = store /\ audit' = audit /\ profiles' = profiles]_vars

C10_Witness ==
  /\ last.cred.kind = "invalid" /\ last.route = "save_all" /\ last.status = 401
  /\ last.args.data.given

----------------------------------------------------------------------------
(* SpecQuota: one free-plan user calls the quota-gated routes over two days *)

QuotaUser == [kind |-> "valid", uid |-> "u1"]
QuotaData == {Data(<<ArrRow(<<"x">>)>>)}
QuotaSheets == {"S", "T", "U"}
\* three sheets, so that three delete-sheet calls of one day can succeed
QuotaWorkbook == Xlsx(<<SheetOf("S", OneCell("a")), SheetOf("T", OneCell("a")), SheetOf("U", OneCell("a"))>>)

InitQuota ==
  /\ profiles = [u \in Users |-> IF u = "u1" THEN Profile("user", "free", Null)
                                 ELSE Profile("user", "paid", OWNER_EMAIL)]
  /\ store = [k \in {EXCEL_FILE_KEY, UserKey("u1")} |->
                IF k = EXCEL_FILE_KEY THEN MasterWorkbook ELSE QuotaWorkbook]
  /\ audit = <<>>
  /\ day = 1
  /\ last = NoResponse
  /\ client = NoClient
  /\ payments = <<>>
  /\ sockets = NoSockets
  /\ sse = NoSse
  /\ logs = NoLogs
  /\ slots = <<>>
  /\ left = MaxQuotaReq

NextQuota ==
  \/ AddSheet(QuotaUser, "ok", "S", TRUE, "none")
  \/ \E name \in QuotaSheets : DeleteSheet(QuotaUser, "ok", name, "none")
  \/ GetCell(QuotaUser, "ok", "S", <<1, 1>>, "", "none")
  \/ \E data \in QuotaData : SaveAll(QuotaUser, "ok", "S", data, "none")
  \/ Tick

SpecQuota == InitQuota /\ [][NextQuota]_vars

QuotaRoutes == {"add_sheet", "delete_sheet", "save_all", "get_cell"}

\* the user's audit rows of the current UTC day
Today(uid) == {i \in 1..Len(audit) : audit[i].user_id = uid /\ audit[i].day = day}
TodayOf(uid, actions) == {i \in Today(uid) : audit[i].action \in actions}

\* C7: a free-plan user calling one quota-gated action only, within one UTC day:
\* with fewer than 3 of its calls recorded today the call is not denied for quota,
\* with 3 recorded it is denied with the quota error and changes nothing; rows of
\* earlier days do not count, so the first call after midnight passes again.
C7_CeilingPerDay ==
  [][(Served /\ last'.plan = "free" /\ last'.route \in QuotaRoutes
        /\ \A i \in Today(last'.uid) : audit[i].action = last'.route)
      => /\ Cardinality(Today(last'.uid)) < 3 => last'.err # "quota"
         /\ Cardinality(Today(last'.uid)) >= 3
              => /\ last'.status = 403 /\ last'.err = "quota"
                 /\ store' = store /\ audit' = audit /\ profiles' = profiles]_vars

C7_Witness ==
  /\ day = 2 /\ last.route = "save_all" /\ last.status = 200 /\ last.plan = "free"
  /\ Cardinality({i \in 1..Len(audit) : audit[i].day = 1 /\ audit[i].action = "save_all"}) = 3
  /\ Cardinality(Today("u1")) = 1

\* C8: once the user's rows of today with action in {add_sheet, delete_sheet,
\* save_all, get_cell} number 3, every further call of the four actions is denied.
C8_CombinedCounter ==
  [][(Served /\ last'.plan = "free" /\ last'.route \in QuotaRoutes
        /\ Cardinality(TodayOf(last'.uid, QuotaRoutes)) >= 3)
      => last'.err = "quota"]_vars

----------------------------------------------------------------------------
(* SpecConc: save-all handlers of one paid user run concurrently on one    *)
(* workbook key; each handler is suspended at its storage awaits           *)

Writers == 1..MaxWriters
ConcSheets == {"S", "T"}
ConcData == {Data(<<ArrRow(<<"x">>)>>), Data(<<ArrRow(<<Null, "x">>)>>)}
ConcKey == UserKey("u1")

IdleSlot ==
  [pc |-> "idle", sheet |-> "", data |-> NoData, dl |-> [error |-> TRUE, blob |-> Xlsx(<<>>)],
   seen |-> 0, order |-> 0]

\* uploads that have landed so far
Uploads == Cardinality({i \in DOMAIN slots : slots[i].order > 0})

InitConc ==
  /\ profiles = [u \in Users |-> IF u = "u1" THEN Profile("user", "paid", Null)
                                 ELSE Profile("user", "paid", OWNER_EMAIL)]
  /\ \E wb \in {Workbook0, MasterWorkbook} :
       store = [k \in {EXCEL_FILE_KEY, ConcKey} |-> IF k = EXCEL_FILE_KEY THEN MasterWorkbook ELSE wb]
  /\ audit = <<>>
  /\ day = 1
  /\ last = NoResponse
  /\ client = NoClient
  /\ payments = <<>>
  /\ sockets = NoSockets
  /\ sse = NoSse
  /\ logs = NoLogs
  /\ slots = [i \in Writers |-> IdleSlot]
  /\ left = MaxWriters

\* the handler up to the resolution of getBufferFromStorage
SaveAllDownload(i, sheet, data) ==
  /\ left > 0
  /\ slots[i].pc = "idle"
  /\ slots' = [slots EXCEPT ![i] = [pc |-> "loaded", sheet |-> sheet, data |-> data,
                                    dl |-> Download(SaveAllKey(AttachUserPlanAndFile("u1", "ok")), "none"),
                                    seen |-> Uploads, order |-> 0]]
  /\ left' = left - 1
  /\ UNCHANGED <<profiles, store, audit, day, last, client, payments, sockets, sse, logs>>

\* the edit of the in-memory copy, writeBuffer and updateBufferToStorage
SaveAllUpload(i) ==
  /\ slots[i].pc = "loaded"
  /\ store' = Put(store, ConcKey, Xlsx(SaveAllApply(slots[i].dl, slots[i].sheet, slots[i].data)))
  /\ slots' = [slots EXCEPT ![i].pc = "uploaded", ![i].order = Uploads + 1]
  /\ UNCHANGED <<profiles, audit, day, last, left, client, payments, sockets, sse, logs>>

\* the audit insert and the response
SaveAllFinish(i) ==
  /\ slots[i].pc = "uploaded"
  /\ LET ctx == AttachUserPlanAndFile("u1", "ok")
         out == Broadcast(Outcome(200, "", ConcKey, store,
                                  Append(audit, AuditRow(ctx, "save_all", slots[i].sheet)),
                                  [success |-> TRUE], {}, {ConcKey}, {ConcKey}), "excel:save_all")
     IN  /\ last' = Response("save_all", GridUser, "ok", ctx,
                             Args(slots[i].sheet, slots[i].data, "", FALSE), out, [success |-> TRUE])
         /\ audit' = out.audit
  /\ slots' = [slots EXCEPT ![i].pc = "done"]
  /\ UNCHANGED <<profiles, store, day, left, client, payments, sockets, sse, logs>>

NextConc ==
  \/ \E i \in Writers, sheet \in ConcSheets, data \in ConcData : SaveAllDownload(i, sheet, data)
  \/ \E i \in Writers : SaveAllUpload(i)
  \/ \E i \in Writers : SaveAllFinish(i)

SpecConc == InitConc /\ [][NextConc]_vars

\* i uploaded, then j uploaded last of all, and both had downloaded before any upload
Raced(i, j) ==
  /\ i # j
  /\ slots[i].order > 0 /\ slots[j].order > slots[i].order
  /\ \A k \in Writers : slots[k].order <= slots[j].order
  /\ slots[i].seen = 0 /\ slots[j].seen = 0

\* the sheet as the request of slot k alone leaves it, given what k downloaded
OwnResult(k) ==
  LET base == Rewrite(slots[k].dl.blob.sheets)
      ws == IF HasSheet(base, slots[k].sheet)
              THEN LoadSheet(GetWorksheet(base, slots[k].sheet))
              ELSE NewWorksheet(slots[k].sheet)
  IN  WriteSheet(SaveGrid(ws, slots[k].data))

\* C3: when two save_all requests on one key both download before either uploads,
\* the stored workbook is the common download with only the later uploader's
\* sheet changed: every other sheet, the earlier uploader's included, is as it
\* was downloaded (or absent if it was absent).
C3_LastUploadWins ==
  \A i, j \in Writers :
    Raced(i, j) =>
      LET base == Rewrite(slots[j].dl.blob.sheets)
          final == store[ConcKey].sheets
      IN  /\ slots[i].dl = slots[j].dl
          /\ HasSheet(final, slots[j].sheet)
          /\ GetWorksheet(final, slots[j].sheet) = OwnResult(j)
          /\ \A name \in ConcSheets \ {slots[j].sheet} :
               /\ HasSheet(final, name) <=> HasSheet(base, name)
               /\ HasSheet(base, name) => GetWorksheet(final, name) = GetWorksheet(base, name)

C3_Witness ==
  \E i, j \in Writers :
    /\ Raced(i, j)
    /\ slots[i].pc = "done" /\ slots[j].pc = "done"
    /\ slots[i].sheet # slots[j].sheet
    /\ HasSheet(store[ConcKey].sheets, slots[i].sheet)
    /\ GetWorksheet(store[ConcKey].sheets, slots[i].sheet) # OwnResult(i)

----------------------------------------------------------------------------
(* Sheet operations, checked on the steps of Spec *)

\* the workbook key add-sheet and delete-sheet resolve for the caller of the step
Addressed == IF last'.role = "superadmin" THEN EXCEL_FILE_KEY ELSE last'.fileKey

Holds(st, key, name) ==
  key \in DOMAIN st /\ st[key].kind = "xlsx" /\ HasSheet(st[key].sheets, name)

\* C11: add_sheet(X, overwrite=false) on a workbook that already contains a sheet
\* named X returns the conflict error, leaves the stored blobs unchanged, writes
\* no audit row and broadcasts no event.
C11_ConflictLeavesWorkbook ==
  [][(Served /\ last'.route = "add_sheet" /\ last'.uid # NoUser /\ ~last'.args.overwrite
        /\ Holds(store, Addressed, last'.args.sheet))
      => /\ last'.err = "conflict"
         /\ store' = store /\ audit' = audit /\ last'.events = <<>>]_vars

\* C12: every stored workbook contains at least one sheet, after any sequence of
\* add_sheet, delete_sheet, save_all, overwrite and upload operations.
C12_AtLeastOneSheet ==
  \A k \in DOMAIN store : store[k].kind = "xlsx" => Len(store[k].sheets) >= 1

----------------------------------------------------------------------------
(* SpecRound: one paid user (plain or superadmin) lists the sheets, adds   *)
(* and deletes a sheet and saves, while the client notes what it was given *)

RoundUser == [kind |-> "valid", uid |-> "u1"]
RoundNew == "X"
RoundFaults == {"none", "download"}

InitRound ==
  /\ profiles \in {[u \in Users |-> IF u = "u1" THEN Profile(r, "paid", Null)
                                    ELSE Profile("user", "paid", OWNER_EMAIL)] :
                     r \in {"user", "superadmin"}}
  /\ \E wb \in {Workbook0, QuotaWorkbook} :
       store = [k \in {EXCEL_FILE_KEY, UserKey("u1")} |-> IF k = EXCEL_FILE_KEY THEN MasterWorkbook ELSE wb]
  /\ audit = <<>>
  /\ day = 1
  /\ last = NoResponse
  /\ client = [NoClient EXCEPT !.recording = TRUE]
  /\ payments = <<>>
  /\ sockets = NoSockets
  /\ sse = NoSse
  /\ logs = NoLogs
  /\ slots = <<>>
  /\ left = MaxRoundReq

NextRound ==
  \/ \E fault \in RoundFaults : ListSheets(RoundUser, "ok", fault)
  \/ \E fault \in RoundFaults : AddSheet(RoundUser, "ok", RoundNew, FALSE, fault)
  \/ \E fault \in RoundFaults : DeleteSheet(RoundUser, "ok", RoundNew, fault)
  \/ SaveAll(RoundUser, "ok", "T", Data(<<ArrRow(<<"x">>)>>), "none")

SpecRound == InitRound /\ [][NextRound]_vars

Elems(q) == {q[i] : i \in 1..Len(q)}
Without(q, n) == SelectSeq(q, LAMBDA e : e # n)

\* the same members, in the same relative order once one (pinned) name is set aside
SameUpToPin(a, b) ==
  /\ Len(a) = Len(b) /\ Elems(a) = Elems(b)
  /\ a = b \/ \E p \in Elems(a) : Without(a, p) = Without(b, p)

\* the client was given a list without X, then added X and deleted X, both with success
RoundTripped ==
  /\ client.listed /\ RoundNew \notin Elems(client.sheets)
  /\ client.calls = <<[route |-> "add_sheet", sheet |-> RoundNew, status |-> 200],
                      [route |-> "delete_sheet", sheet |-> RoundNew, status |-> 200]>>

\* C13: after a successful add_sheet(X) and a successful delete_sheet(X), X not
\* having been in the workbook, list_sheets returns a list without X that has the
\* members of the list returned before, in the same relative order apart from the
\* pinned sheet.
C13_AddDeleteRoundTrip ==
  [][(Served /\ RoundTripped /\ last'.route = "sheets" /\ last'.status = 200)
      => /\ RoundNew \notin Elems(last'.body.sheets)
         /\ SameUpToPin(client.sheets, last'.body.sheets)]_vars

\* the names list_sheets starts from: the caller's workbook, for a superadmin
\* followed by the master workbook's names not yet in it
Underlying(resp) ==
  LET own == Names(store[resp.fileKey].sheets) IN
  IF resp.role = "superadmin" /\ EXCEL_FILE_KEY \in DOMAIN store
    THEN own \o SelectSeq(Names(store[EXCEL_FILE_KEY].sheets), LAMBDA n : n \notin Elems(own))
    ELSE own

\* the user's audit rows that decide the pin
PinRows(uid) ==
  {i \in 1..Len(audit) : audit[i].user_id = uid /\ audit[i].action \in {"add_sheet", "delete_sheet", "save_all"}}

\* C14: list_sheets returns the underlying names with the sheet of the user's most
\* recent add_sheet / delete_sheet / save_all audit row at index 0 and all other
\* names in their underlying relative order; when that sheet is not in the list
\* (or there is no such row) the list is returned in underlying order.
C14_PinLatestStable ==
  [][(Served /\ last'.route = "sheets" /\ last'.status = 200)
      => LET U == Underlying(last')
             L == last'.body.sheets
             rows == PinRows(last'.uid)
             newest == CHOOSE i \in rows : \A j \in rows : j <= i
         IN  IF rows # {} /\ audit[newest].sheet_name \in Elems(U)
               THEN /\ Len(L) = Len(U)
                    /\ L[1] = audit[newest].sheet_name
                    /\ Without(L, L[1]) = Without(U, L[1])
               ELSE L = U]_vars

\* a list whose pinned sheet is neither first in the workbook nor that of the oldest row
C14_Witness ==
  /\ last.route = "sheets" /\ last.status = 200 /\ Len(last.body.sheets) >= 3
  /\ last.body.sheets # Underlying(last)
  /\ Cardinality({audit[i].sheet_name : i \in PinRows("u1")}) >= 2

----------------------------------------------------------------------------
(* The reading routes after a sheet was rewritten: add-sheet with overwrite
   moves the sheet to the end of the workbook and makes it the pinned one. *)

InitRead == Start(MaxReadReq)

NextRead ==
  \/ \E cred \in Creds, env \in Environments, name \in SheetNames :
       AddSheet(cred, env[1], name, TRUE, env[2])
  \/ \E cred \in Creds, env \in Environments :
       ListSheets(cred, env[1], env[2])
  \/ \E cred \in Creds, env \in Environments :
       Latest(cred, env[1], env[2])
  \/ \E cred \in Creds, env \in Environments, name \in SheetNames :
       Preview(cred, env[1], name, env[2])
  \/ \E cred \in Creds, env \in Environments, name \in SheetNames, scope \in Scopes :
       GetCell(cred, env[1], name, <<1, 1>>, scope, env[2])
  \/ \E cred \in Creds, env \in Environments, name \in SheetNames :
       ExportCsv(cred, env[1], name, env[2])
  \/ \E cred \in Creds, env \in Environments, name \in SheetNames :
       ExportPdf(cred, env[1], name, env[2])

SpecRead == InitRead /\ [][NextRead]_vars

\* the routes that only read workbooks
ReadRoutes == {"sheets", "latest", "preview", "get_cell", "export_csv", "export_pdf"}

\* C15: list_sheets, latest, preview, get_cell and the CSV / PDF exports leave every
\* stored workbook unchanged, whatever they answer; the pin of list_sheets reorders
\* the response only.
C15_ReadsLeaveStore ==
  [][(Served /\ last'.route \in ReadRoutes) => store' = store]_vars

\* a list answered with the pinned sheet moved in front of the stored order
C15_Witness ==
  /\ last.route = "sheets" /\ last.status = 200 /\ last.role # "superadmin"
  /\ last.body.sheets # Names(store[last.fileKey].sheets)

\* the routes whose successful calls are audited and counted
CountedRoutes == {"add_sheet", "delete_sheet", "save_all", "get_cell"}

\* C16: when add_sheet, delete_sheet, save_all or get_cell is answered with an error
\* (workbook not found, sheet not found, conflict, unreadable workbook, failed upload
\* or any other non-200 answer), no audit row is written and every stored workbook
\* is unchanged, so the failed call does not count toward the daily quota.
C16_ErrorsLeaveNoTrace ==
  [][(Served /\ last'.route \in CountedRoutes /\ last'.status # 200)
      => audit' = audit /\ store' = store]_vars

\* a delete_sheet of an existing sheet whose upload failed
C16_Witness ==
  /\ last.route = "delete_sheet" /\ last.status = 500 /\ last.err = "upload"
  /\ last.key \in last.writes

----------------------------------------------------------------------------
(* The audit list read by several users: both users hold a workbook and read
   cells, which writes audit rows, and both ask for the audit list. *)

AuditLimits == {1, 2, 100}
AuditOffsets == {0, 1}

InitAudit ==
  /\ \E r \in {"user", "superadmin"} :
       profiles = [u \in Users |-> IF u = "u1" THEN Profile(r, "paid", Null)
                                   ELSE Profile("user", "paid", OWNER_EMAIL)]
  /\ store = [k \in {EXCEL_FILE_KEY, UserKey("u1"), UserKey("u2")} |->
                IF k = UserKey("u1") THEN Workbook0 ELSE MasterWorkbook]
  /\ audit = <<>>
  /\ day = 1
  /\ last = NoResponse
  /\ client = NoClient
  /\ payments = <<>>
  /\ sockets = NoSockets
  /\ sse = NoSse
  /\ logs = NoLogs
  /\ slots = <<>>
  /\ left = MaxAuditReq

NextAudit ==
  \/ \E u \in Users, name \in {"S", "T"} :
       GetCell([kind |-> "valid", uid |-> u], "ok", name, <<1, 1>>, "", "none")
  \/ \E u \in Users, limit \in AuditLimits, offset \in AuditOffsets :
       AuditList([kind |-> "valid", uid |-> u], "ok", limit, offset)

SpecAudit == InitAudit /\ [][NextAudit]_vars

\* the caller of the last answer is a superadmin or the owner
Privileged(resp) == resp.role = "superadmin" \/ resp.email = OWNER_EMAIL

\* the entries of the audit rows written by the given user
EntriesOf(uid) == {Entry(audit[i]) : i \in {j \in 1..Len(audit) : audit[j].user_id = uid}}

\* C17: the audit list answered to a caller who is neither a superadmin nor the
\* owner holds only entries of the caller's own audit rows, for every limit, offset
\* and audit content; entries of other users are returned to a superadmin or the
\* owner only.
C17_AuditListOwnRows ==
  [][(Served /\ last'.route = "audit_list" /\ last'.status = 200 /\ ~Privileged(last'))
      => \A i \in 1..Len(last'.body.entries) :
           /\ last'.body.entries[i] \in EntriesOf(last'.uid)
           /\ last'.body.entries[i] \notin UNION {EntriesOf(u) : u \in Users \ {last'.uid}}]_vars

\* an unprivileged caller is answered own entries while the log holds another user's rows
C17_Witness ==
  /\ last.route = "audit_list" /\ last.status = 200 /\ ~Privileged(last)
  /\ Len(last.body.entries) >= 1
  /\ \E i \in 1..Len(audit) : audit[i].user_id # last.uid

\* a privileged caller is answered another user's entries
C17_PrivilegedSeesAll ==
  /\ last.route = "audit_list" /\ last.status = 200 /\ Privileged(last)
  /\ \E i \in 1..Len(last.body.entries) : last.body.entries[i] \notin EntriesOf(last.uid)

----------------------------------------------------------------------------
(* POST /payments/webhook (app) and POST /excel/webhook (router).  Both
   routes are registered on the application after the global JSON body
   parser, with a raw body parser of their own. *)

PAYSTACK_SECRET_KEY == "sk_live"

\* the request body: the bytes of a JSON event, or bytes that are not JSON
HookBody(event, email) == [json |-> TRUE, event |-> event, email |-> email, reference |-> "ref"]
NotJson == [json |-> FALSE, event |-> "", email |-> "", reference |-> ""]

\* crypto.createHmac('sha512', secret).update(body).digest('hex'): a keyed digest
\* that two inputs share only when key and message are the same
Hmac(secret, body) == [alg |-> "sha512", key |-> secret, msg |-> body]
NoSignature == [alg |-> "none", key |-> "", msg |-> NotJson]

\* String.prototype.toLowerCase on the addresses used
ToLowerCase(e) == IF e = "U1@x" THEN "u1@x" ELSE e

HookEmails == {"u1@x", "U1@x", "nobody@x"}
HookBodies ==
  {HookBody("charge.success", e) : e \in HookEmails} \cup {HookBody("charge.failed", "u1@x"), NotJson}
HookSignatures(body) ==
  {NoSignature, Hmac(PAYSTACK_SECRET_KEY, body), Hmac("sk_other", body),
   Hmac(PAYSTACK_SECRET_KEY, HookBody("charge.success", "owner@x"))}
HookTypes == {"application/json", "text/plain"}
HookFaults == {"none", "update_error", "update_throw", "insert_error", "insert_throw"}
HookVariants == {"app", "router"}

HookRequests ==
  UNION {{[ctype |-> t, body |-> b, signature |-> g] : t \in HookTypes, g \in HookSignatures(b)} :
           b \in HookBodies}

\* what a throw outside the inner try becomes: the app route answers 500 from its
\* catch; the router route has no catch, so the answer is left to the framework
\* (500) or is never sent (0)
Thrown(variant) == IF variant = "app" THEN {500} ELSE {500, 0}

HookOutcome(status, err, newProfiles, newPayments, events) ==
  [Outcome(status, err, NoKey, store, audit, NoBody, {}, {}, {})
     EXCEPT !.profiles = newProfiles, !.payments = newPayments, !.events = events]

\* .update({ plan: 'paid', ... }).eq('email', email.toLowerCase())
MarkPaid(email) ==
  [u \in Users |-> IF profiles[u].exists /\ profiles[u].email = ToLowerCase(email)
                     THEN [profiles[u] EXCEPT !.plan = "paid"] ELSE profiles[u]]

PaymentRow(body) == [email |-> body.email, reference |-> body.reference, status |-> "success"]

WebhookHandler(variant, req, fault, thrown) ==
  LET body == req.body
      events == IF variant = "app" THEN <<"payments:success">> ELSE <<>>
      same(status, err) == HookOutcome(status, err, profiles, payments, <<>>)
  IN
  \* express.json has consumed a JSON body before the route: req.body is then the
  \* parsed object and Hmac.update throws on it
  IF req.ctype = "application/json" /\ ~body.json THEN same(400, "bad json")
  ELSE IF req.ctype = "application/json" THEN same(thrown, "hmac")
  ELSE IF Hmac(PAYSTACK_SECRET_KEY, body) # req.signature THEN same(401, "signature")
  ELSE IF ~body.json THEN same(thrown, "parse")
  ELSE IF body.event # "charge.success" THEN same(200, "")
  ELSE IF fault = "update_throw" THEN same(200, "")
  ELSE IF fault = "update_error"
    THEN HookOutcome(200, "", profiles, Append(payments, PaymentRow(body)), events)
  ELSE IF fault = "insert_throw" THEN HookOutcome(200, "", MarkPaid(body.email), payments, <<>>)
  ELSE IF fault = "insert_error" THEN HookOutcome(200, "", MarkPaid(body.email), payments, events)
  ELSE HookOutcome(200, "", MarkPaid(body.email), Append(payments, PaymentRow(body)), events)

HookArgs(variant, req, fault) ==
  [sheet |-> "", data |-> NoData, scope |-> "", overwrite |-> FALSE,
   variant |-> variant, hook |-> req, fault |-> fault]

Webhook(variant, req, fault, thrown) ==
  LET out == WebhookHandler(variant, req, fault, thrown)
  IN  Respond("webhook", [kind |-> "missing", uid |-> NoUser], "skip", NoContext,
              HookArgs(variant, req, fault), out)

InitHook ==
  /\ \E pl \in {"free", "paid"} :
       profiles = [u \in Users |-> IF u = "u1" THEN Profile("user", pl, "u1@x")
                                   ELSE Profile("user", "free", OWNER_EMAIL)]
  /\ store = [k \in {EXCEL_FILE_KEY, UserKey("u1")} |->
                IF k = EXCEL_FILE_KEY THEN MasterWorkbook ELSE Workbook0]
  /\ audit = <<>>
  /\ day = 1
  /\ last = NoResponse
  /\ client = NoClient
  /\ payments = <<>>
  /\ sockets = NoSockets
  /\ sse = NoSse
  /\ logs = NoLogs
  /\ slots = <<>>
  /\ left = MaxHookReq

NextHook ==
  \E variant \in HookVariants, req \in HookRequests, fault \in HookFaults :
    \E thrown \in Thrown(variant) : Webhook(variant, req, fault, thrown)

SpecHook == InitHook /\ [][NextHook]_vars

\* the signature header is the digest of the body under the gateway secret
Signed(req) == req.signature = Hmac(PAYSTACK_SECRET_KEY, req.body)

\* C18: a webhook whose signature header is missing or is not the HMAC-SHA512 of
\* the body under the gateway secret is answered 401 with no profile update, no
\* payment row and no broadcast; a webhook with a matching signature and event
\* charge.success is answered 200 and the profile whose email is the event's
\* customer email has plan paid afterwards (the database calls succeeding).
C18_WebhookVerifies ==
  [][(Served /\ last'.route = "webhook" /\ last'.args.fault = "none")
      => LET req == last'.args.hook IN
         /\ ~Signed(req)
              => /\ last'.status = 401
                 /\ profiles' = profiles /\ payments' = payments /\ last'.events = <<>>
         /\ (Signed(req) /\ req.body.json /\ req.body.event = "charge.success")
              => /\ last'.status = 200
                 /\ \A u \in Users :
                      (profiles[u].exists /\ profiles[u].email = req.body.email)
                        => profiles'[u].plan = "paid"]_vars

\* C19: a webhook whose body carries a valid signature and parses as JSON is
\* answered 200 whatever the profile update and the payment insert do (return an
\* error, match no row, or throw).
C19_ValidAlways200 ==
  [][(Served /\ last'.route = "webhook" /\ Signed(last'.args.hook) /\ last'.args.hook.body.json)
      => last'.status = 200]_vars

----------------------------------------------------------------------------
(* The realtime relay: io.on('connection') with its join, leave, cell-edit
   and disconnect handlers. *)

SocketIds == {"a", "b", "c"}
RoomNames == {"r1", "r2"}
EditValues == {"x", Null}
EditRows == {0, -1}

\* the operations clients emit: the room is a sheet room or, as any string is
\* accepted, the private room of a socket
EditOps ==
  {[room |-> r, rowIndex |-> i, colIndex |-> 0, value |-> v] :
     r \in RoomNames \cup {"a"}, i \in EditRows, v \in EditValues}

\* a connected socket is in the room named by its own id
Connected(id) == [connected |-> TRUE, rooms |-> {id}, inbox |-> <<>>]

\* the sockets in a room
InRoom(room) == {t \in DOMAIN sockets : sockets[t].connected /\ room \in sockets[t].rooms}

\* (variant) io.to(room): every socket in the room, the sender included
RecipientsAll(id, room) == InRoom(room)

\* socket.to(room): every socket in the room except the sender
Recipients(id, room) == InRoom(room) \ {id}

Deliver(socks, to, event, payload) ==
  [t \in DOMAIN socks |->
     IF t \in to THEN [socks[t] EXCEPT !.inbox = Append(@, [event |-> event, payload |-> payload])]
     ELSE socks[t]]

\* the request as the relay saw it, kept in the place of the last response
Emitted(id, event, op) ==
  [NoResponse EXCEPT !.route = event,
                     !.args = [sheet |-> "", data |-> NoData, scope |-> "", overwrite |-> FALSE,
                               sender |-> id, op |-> op]]

SocketStep(id, event, op) ==
  /\ left > 0
  /\ sockets[id].connected
  /\ left' = left - 1
  /\ last' = Emitted(id, event, op)
  /\ UNCHANGED <<profiles, store, audit, day, slots, client, payments, sse, logs>>

Join(id, room) ==
  /\ SocketStep(id, "join", [room |-> room])
  /\ LET joined == [sockets EXCEPT ![id].rooms = @ \cup {room}]
     IN  sockets' = Deliver(joined, {t \in DOMAIN joined : joined[t].connected /\ room \in joined[t].rooms},
                            "presence", [userId |-> id, status |-> "joined"])

Leave(id, room) ==
  /\ SocketStep(id, "leave", [room |-> room])
  /\ LET gone == [sockets EXCEPT ![id].rooms = @ \ {room}]
     IN  sockets' = Deliver(gone, {t \in DOMAIN gone : gone[t].connected /\ room \in gone[t].rooms},
                            "presence", [userId |-> id, status |-> "left"])

CellEdit(id, op) ==
  /\ SocketStep(id, "cell-edit", op)
  /\ sockets' = Deliver(sockets, Recipients(id, op.room), "cell-edit",
                        [rowIndex |-> op.rowIndex, colIndex |-> op.colIndex, value |-> op.value])

Disconnect(id) ==
  /\ SocketStep(id, "disconnect", [room |-> ""])
  /\ sockets' = [sockets EXCEPT ![id].connected = FALSE, ![id].rooms = {}]

InitRelay ==
  /\ profiles = [u \in Users |-> IF u = "u1" THEN Profile("user", "paid", Null)
                                 ELSE Profile("user", "paid", OWNER_EMAIL)]
  /\ store = [k \in {EXCEL_FILE_KEY, UserKey("u1")} |->
                IF k = EXCEL_FILE_KEY THEN MasterWorkbook ELSE Workbook0]
  /\ audit = <<>>
  /\ day = 1
  /\ last = NoResponse
  /\ client = NoClient
  /\ payments = <<>>
  /\ sockets = [id \in SocketIds |-> Connected(id)]
  /\ sse = NoSse
  /\ logs = NoLogs
  /\ slots = <<>>
  /\ left = MaxRelayReq

NextRelay ==
  \/ \E id \in SocketIds, room \in RoomNames : Join(id, room)
  \/ \E id \in SocketIds, room \in RoomNames : Leave(id, room)
  \/ \E id \in SocketIds, op \in EditOps : CellEdit(id, op)
  \/ \E id \in SocketIds : Disconnect(id)

SpecRelay == InitRelay /\ [][NextRelay]_vars

\* C20: a cell-edit emitted for room R is delivered, with rowIndex, colIndex and
\* value as emitted, to every socket that is in R at that moment except the sender;
\* the sender and the sockets outside R receive nothing; no stored workbook changes.
C20_RelayToOthersInRoom ==
  [][(Served /\ last'.route = "cell-edit")
      => LET op == last'.args.op
             from == last'.args.sender
             msg == [event |-> "cell-edit",
                     payload |-> [rowIndex |-> op.rowIndex, colIndex |-> op.colIndex, value |-> op.value]]
         IN  /\ \A t \in SocketIds :
                  sockets'[t].inbox =
                    IF t # from /\ sockets[t].connected /\ op.room \in sockets[t].rooms
                      THEN Append(sockets[t].inbox, msg) ELSE sockets[t].inbox
             /\ store' = store]_vars

\* an edit sent from inside a room that reached another member while a third socket is outside
C20_Witness ==
  /\ last.route = "cell-edit"
  /\ last.args.op.room \in sockets[last.args.sender].rooms
  /\ \E t \in SocketIds \ {last.args.sender} :
       /\ last.args.op.room \in sockets[t].rooms
       /\ Len(sockets[t].inbox) >= 1
       /\ sockets[t].inbox[Len(sockets[t].inbox)].event = "cell-edit"
  /\ \E t \in SocketIds : sockets[t].connected /\ last.args.op.room \notin sockets[t].rooms

\* the presence notification about a socket
Presence(id, status) == [event |-> "presence", payload |-> [userId |-> id, status |-> status]]

\* C21: when a socket joins a room, every member of the room (the joiner included)
\* receives presence 'joined' for it; when a socket that is in a room stops being a
\* member, by leave or by disconnect, every socket still in the room receives
\* presence 'left' for it.
C21_PresenceOnMembershipChange ==
  [][(Served /\ last'.route \in {"join", "leave", "disconnect"})
      => LET from == last'.args.sender
             stay(room) == {t \in SocketIds \ {from} : sockets[t].connected /\ room \in sockets[t].rooms}
         IN  /\ last'.route = "join"
                  => \A t \in stay(last'.args.op.room) \cup {from} :
                       sockets'[t].inbox = Append(sockets[t].inbox, Presence(from, "joined"))
             /\ (last'.route = "leave" /\ last'.args.op.room \in sockets[from].rooms)
                  => \A t \in stay(last'.args.op.room) :
                       sockets'[t].inbox = Append(sockets[t].inbox, Presence(from, "left"))
             /\ last'.route = "disconnect"
                  => \A room \in RoomNames \cap sockets[from].rooms : \A t \in stay(room) :
                       /\ Len(sockets'[t].inbox) > Len(sockets[t].inbox)
                       /\ sockets'[t].inbox[Len(sockets'[t].inbox)] = Presence(from, "left")]_vars

----------------------------------------------------------------------------
(* GET /realtime/events: the push streams and the sseClients map.  A stream
   is identified by its position in sse.streams (the response object); the
   map is keyed by `${req.user.id}:${Date.now()}`. *)

\* CONFIG.MAX_SSE_CLIENTS, scaled down from 500
MAX_SSE_CLIENTS == 2

\* the map key of a stream opened by the user at the current clock value
ClientId(uid) == <<uid, sse.now>>

\* Map.prototype.set and Map.prototype.delete
MapSet(m, k, v) == [x \in DOMAIN m \cup {k} |-> IF x = k THEN v ELSE m[x]]
MapDelete(m, k) == [x \in DOMAIN m \ {k} |-> m[x]]

Registered == {sse.registry[k] : k \in DOMAIN sse.registry}
OpenStreams == {i \in 1..Len(sse.streams) : sse.streams[i].open}

SseAnswer(uid, route, status, stream) ==
  [NoResponse EXCEPT !.route = route, !.uid = uid, !.status = status,
                     !.args = [sheet |-> "", data |-> NoData, scope |-> "", overwrite |-> FALSE,
                               stream |-> stream]]

SseStep ==
  /\ left > 0
  /\ left' = left - 1
  /\ UNCHANGED <<profiles, store, audit, day, slots, client, payments, sockets, logs>>

SseConnect(cred, lk) ==
  LET a == RequireAuth(cred)
      ctx == AttachUserPlanAndFile(a.user, lk)
      id == Len(sse.streams) + 1
  IN
  /\ SseStep
  /\ IF ~a.ok THEN last' = SseAnswer(NoUser, "events", 401, 0) /\ sse' = sse
     ELSE IF ctx.userEmail # OWNER_EMAIL /\ ctx.userRole # "superadmin"
       THEN last' = SseAnswer(ctx.uid, "events", 403, 0) /\ sse' = sse
     ELSE IF Cardinality(DOMAIN sse.registry) >= MAX_SSE_CLIENTS
       THEN last' = SseAnswer(ctx.uid, "events", 503, 0) /\ sse' = sse
     ELSE /\ last' = SseAnswer(ctx.uid, "events", 200, id)
          /\ sse' = [sse EXCEPT
                       !.streams = Append(@, [user |-> ctx.uid, key |-> ClientId(ctx.uid), open |-> TRUE,
                                              pinging |-> TRUE, got |-> <<"connected">>]),
                       !.registry = MapSet(@, ClientId(ctx.uid), id)]

\* req.on('close'): clearInterval(ping); sseClients.delete(clientId)
SseClose(i) ==
  /\ SseStep
  /\ sse.streams[i].open
  /\ last' = SseAnswer(sse.streams[i].user, "close", 0, i)
  /\ sse' = [sse EXCEPT !.streams[i].open = FALSE, !.streams[i].pinging = FALSE,
                        !.registry = MapDelete(@, sse.streams[i].key)]

\* the heartbeat timer of a stream fires
SsePing(i) ==
  /\ SseStep
  /\ sse.streams[i].pinging
  /\ last' = SseAnswer(sse.streams[i].user, "ping", 0, i)
  /\ sse' = [sse EXCEPT !.streams[i].got = Append(@, "ping")]

\* Date.now() advances
SseTick ==
  /\ sse.now < MaxSseTick
  /\ sse' = [sse EXCEPT !.now = @ + 1]
  /\ UNCHANGED <<profiles, store, audit, day, last, slots, left, client, payments, sockets, logs>>

InitSse ==
  /\ \E r \in {"user", "superadmin"} :
       profiles = [u \in Users |-> IF u = "u1" THEN Profile(r, "paid", Null)
                                   ELSE Profile("user", "paid", OWNER_EMAIL)]
  /\ store = [k \in {EXCEL_FILE_KEY, UserKey("u1")} |->
                IF k = EXCEL_FILE_KEY THEN MasterWorkbook ELSE Workbook0]
  /\ audit = <<>>
  /\ day = 1
  /\ last = NoResponse
  /\ client = NoClient
  /\ payments = <<>>
  /\ sockets = NoSockets
  /\ sse = NoSse
  /\ logs = NoLogs
  /\ slots = <<>>
  /\ left = MaxSseReq

NextSse ==
  \/ \E cred \in Creds : SseConnect(cred, "ok")
  \/ \E i \in 1..Len(sse.streams) : SseClose(i)
  \/ \E i \in 1..Len(sse.streams) : SsePing(i)
  \/ SseTick
  \/ AddSheet([kind |-> "valid", uid |-> "u1"], "ok", "S", TRUE, "none")

SpecSse == InitSse /\ [][NextSse]_vars

\* C22: every event handed to broadcastSSE is written to every push stream that
\* has connected and has not closed, whatever the number of streams and the time
\* of their connects, streams opened by one user within one clock value included.
C22_BroadcastReachesOpenStreams ==
  [][(Served /\ last'.events # <<>>)
      => \A i \in OpenStreams : sse'.streams[i].got = sse.streams[i].got \o last'.events]_vars

\* C23: at most MAX_SSE_CLIENTS push streams are open at a time, and a connect
\* arriving while that many are open is rejected and adds nothing to the map.
C23_OpenStreamsBounded ==
  /\ Cardinality(OpenStreams) <= MAX_SSE_CLIENTS
  /\ (last.route = "events" /\ last.status = 503) => Cardinality(OpenStreams) >= MAX_SSE_CLIENTS

\* C24: the close of a push stream removes exactly that stream's map entry and
\* stops its heartbeat; the entries of the other open streams stay; a closed
\* stream is never in the map and receives nothing afterwards.
C24_CloseRemovesOwnEntry ==
  [][/\ (Served /\ last'.route = "close")
          => LET c == last'.args.stream IN
             /\ ~sse'.streams[c].pinging
             /\ \A k \in DOMAIN sse.registry :
                  sse.registry[k] # c => (k \in DOMAIN sse'.registry /\ sse'.registry[k] = sse.registry[k])
             /\ \A k \in DOMAIN sse'.registry : sse'.registry[k] # c
      /\ \A j \in 1..Len(sse.streams) :
           ~sse.streams[j].open => (sse'.streams[j].got = sse.streams[j].got /\ j \notin Registered)]_vars

----------------------------------------------------------------------------
(* writeAuditLog: the day-partitioned NDJSON audit object in the logs bucket *)

LogEntries == {"e1", "e2"}

\* JSON.stringify(entry) + '\n'
Line(entry) == [json |-> entry]

\* the lines stored for a day
Stored(d) == IF d \in DOMAIN logs THEN logs[d] ELSE <<>>

\* the object read back: its text when download returned data, '' otherwise
Current(fault) == IF fault = "download" THEN <<>> ELSE Stored(day)

WriteAuditLog(entry, fault) ==
  /\ left > 0
  /\ left' = left - 1
  /\ last' = [NoResponse EXCEPT !.route = "audit_log", !.status = IF fault = "upload" THEN 0 ELSE 1,
                                !.args = [sheet |-> "", data |-> NoData, scope |-> "", overwrite |-> FALSE,
                                          entry |-> entry, fault |-> fault]]
  /\ logs' = IF fault = "upload" THEN logs
             ELSE MapSet(logs, day, Append(Current(fault), Line(entry)))
  /\ UNCHANGED <<profiles, store, audit, day, slots, client, payments, sockets, sse>>

InitLog ==
  /\ profiles = [u \in Users |-> IF u = "u1" THEN Profile("user", "paid", Null)
                                 ELSE Profile("user", "paid", OWNER_EMAIL)]
  /\ store = [k \in {EXCEL_FILE_KEY, UserKey("u1")} |->
                IF k = EXCEL_FILE_KEY THEN MasterWorkbook ELSE Workbook0]
  /\ audit = <<>>
  /\ day = 1
  /\ last = NoResponse
  /\ client = NoClient
  /\ payments = <<>>
  /\ sockets = NoSockets
  /\ sse = NoSse
  /\ logs = NoLogs
  /\ slots = <<>>
  /\ left = MaxLogReq

NextLog ==
  \/ \E entry \in LogEntries, fault \in Faults : WriteAuditLog(entry, fault)
  \/ Tick

SpecLog == InitLog /\ [][NextLog]_vars

\* C25: each writeAuditLog call (one after another, same UTC day, whatever the
\* download of the day's object returns) keeps every line already stored for the
\* day, in order, and adds exactly one line at the end.
C25_AuditLogAppendOnly ==
  [][(Served /\ last'.route = "audit_log" /\ last'.status = 1)
      => logs'[day] = Append(Stored(day), Line(last'.args.entry))]_vars

----------------------------------------------------------------------------
(* escapeCSV of the CSV export, and a reader of CSV text by the usual quoting
   rules (RFC 4180) to read its output back *)

Comma == ","
Quote == "\""
CR == "\r"
LF == "\n"
CsvAlphabet == {Comma, Quote, CR, LF, "a"}

\* a cell value: a string as its characters, or null / undefined
StringCell(chars) == [kind |-> "string", chars |-> chars]
NullCell == [kind |-> "null", chars |-> <<>>]
UndefinedCell == [kind |-> "undefined", chars |-> <<>>]
CsvCells ==
  {StringCell(c) : c \in UNION {[1..n -> CsvAlphabet] : n \in 0..MaxCsvLen}} \cup {NullCell, UndefinedCell}

\* s.replace(/"/g, '""')
RECURSIVE DoubleQuotes(_)
DoubleQuotes(s) ==
  IF s = <<>> THEN <<>>
  ELSE (IF Head(s) = Quote THEN <<Quote, Quote>> ELSE <<Head(s)>>) \o DoubleQuotes(Tail(s))

\* (variant) the quotes inside a quoted field are left single
EscapeCSVSingle(v) ==
  IF v.kind \in {"null", "undefined"} THEN <<>>
  ELSE IF \E i \in 1..Len(v.chars) : v.chars[i] \in {Quote, Comma, LF, CR}
    THEN <<Quote>> \o v.chars \o <<Quote>>
  ELSE v.chars

EscapeCSV(v) ==
  IF v.kind \in {"null", "undefined"} THEN <<>>
  ELSE IF \E i \in 1..Len(v.chars) : v.chars[i] \in {Quote, Comma, LF, CR}
    THEN <<Quote>> \o DoubleQuotes(v.chars) \o <<Quote>>
  ELSE v.chars

\* the reader: mode is "start" (at the start of a field), "plain" (in an unquoted
\* field), "quoted" (inside quotes) or "closing" (after a quote inside quotes)
RECURSIVE ReadCsv(_, _, _, _, _)
ReadCsv(text, mode, field, record, records) ==
  IF text = <<>>
    THEN IF mode = "start" /\ record = <<>> THEN records
         ELSE Append(records, Append(record, field))
  ELSE
    LET ch == Head(text)
        rest == Tail(text)
        afterEol == IF ch = CR /\ rest # <<>> /\ Head(rest) = LF THEN Tail(rest) ELSE rest
    IN
    IF mode = "quoted"
      THEN IF ch = Quote THEN ReadCsv(rest, "closing", field, record, records)
           ELSE ReadCsv(rest, "quoted", Append(field, ch), record, records)
    ELSE IF mode = "closing" /\ ch = Quote
      THEN ReadCsv(rest, "quoted", Append(field, Quote), record, records)
    ELSE IF mode = "start" /\ ch = Quote
      THEN ReadCsv(rest, "quoted", field, record, records)
    ELSE IF ch = Comma
      THEN ReadCsv(rest, "start", <<>>, Append(record, field), records)
    ELSE IF ch \in {CR, LF}
      THEN ReadCsv(afterEol, "start", <<>>, <<>>, Append(records, Append(record, field)))
    ELSE ReadCsv(rest, "plain", Append(field, ch), record, records)

ParseCsv(text) == ReadCsv(text, "start", <<>>, <<>>, <<>>)

\* one call of escapeCSV on a cell value
EscapeCell(v) ==
  /\ left > 0
  /\ left' = left - 1
  /\ last' = [NoResponse EXCEPT !.route = "escape_csv",
                                !.args = [sheet |-> "", data |-> NoData, scope |-> "", overwrite |-> FALSE,
                                          value |-> v],
                                !.body = [field |-> EscapeCSV(v)]]
  /\ UNCHANGED <<profiles, store, audit, day, slots, client, payments, sockets, sse, logs>>

InitCsv ==
  /\ profiles = [u \in Users |-> IF u = "u1" THEN Profile("user", "paid", Null)
                                 ELSE Profile("user", "paid", OWNER_EMAIL)]
  /\ store = [k \in {EXCEL_FILE_KEY, UserKey("u1")} |->
                IF k = EXCEL_FILE_KEY THEN MasterWorkbook ELSE Workbook0]
  /\ audit = <<>>
  /\ day = 1
  /\ last = NoResponse
  /\ client = NoClient
  /\ payments = <<>>
  /\ sockets = NoSockets
  /\ sse = NoSse
  /\ logs = NoLogs
  /\ slots = <<>>
  /\ left = 1

NextCsv == \E v \in CsvCells : EscapeCell(v)

SpecCsv == InitCsv /\ [][NextCsv]_vars

\* C26: the field escapeCSV emits for a string of commas, double quotes, carriage
\* returns, newlines and ordinary characters reads back, by the standard quoting
\* rules, as the original string (here as the first field of a line whose second
\* field is a); null and undefined are emitted as the empty field.
C26_CsvFieldRoundTrip ==
  last.route = "escape_csv"
    => /\ ParseCsv(last.body.field \o <<Comma, "a", LF>>) = << <<last.args.value.chars, <<"a">>>> >>
       /\ last.args.value.kind \in {"null", "undefined"} => last.body.field = <<>>

\* a value holding a comma, a double quote and a newline was escaped
C26_Witness ==
  /\ last.route = "escape_csv"
  /\ {Comma, Quote, LF} \subseteq {last.args.value.chars[i] : i \in 1..Len(last.args.value.chars)}

\* the caller of the request just served has a profile row with plan free
FreeCaller == last'.uid # NoUser /\ profiles[last'.uid].exists /\ profiles[last'.uid].plan = "free"

\* the keys stored under the user's own prefix
OwnFiles(uid) == {k \in DOMAIN store : StartsWithUserPrefix(k, uid)}

\* C27: the upload of a CSV or PDF file by a free-plan user is rejected as premium
\* only, and a free-plan user who has a workbook under the own prefix cannot upload
\* a second xlsx file; in both cases nothing is stored and the profile's workbook
\* key stays.
C27_FreeUploadRejected ==
  [][(Served /\ last'.route = "upload" /\ FreeCaller)
      => /\ last'.args.sheet \in {"doc.pdf", "doc.csv"}
              => (last'.status = 403 /\ store' = store /\ profiles' = profiles)
         /\ (last'.args.sheet = "uploaded.xlsx" /\ OwnFiles(last'.uid) # {})
              => (last'.status = 403 /\ store' = store /\ profiles' = profiles)]_vars

----------------------------------------------------------------------------
(* SpecRace: save-all and add-sheet handlers of one free-plan user run     *)
(* concurrently; each is suspended at the count query, at the storage      *)
(* calls and at the audit insert                                           *)

MaxRacers == 4         \* handlers in flight in SpecRace

Racers == 1..MaxRacers
RaceRoutes == {"save_all", "add_sheet"}
RaceSheet == "S"
RaceData == Data(<<ArrRow(<<"x">>)>>)
RaceUser == "u1"

IdleRacer == [pc |-> "idle", route |-> "", seen |-> 0]

InitRace ==
  /\ profiles = [u \in Users |-> IF u = RaceUser THEN Profile("user", "free", Null) ELSE NoProfile]
  /\ store = [k \in {EXCEL_FILE_KEY, UserKey(RaceUser)} |->
                IF k = EXCEL_FILE_KEY THEN MasterWorkbook ELSE Workbook0]
  /\ audit = <<>>
  /\ day = 1
  /\ last = NoResponse
  /\ client = NoClient
  /\ payments = <<>>
  /\ sockets = NoSockets
  /\ sse = NoSse
  /\ logs = NoLogs
  /\ slots = [i \in Racers |-> IdleRacer]
  /\ left = MaxRacers

\* the limit check of the handler against the count the query returned
RaceOver(ctx, route) == IF route = "save_all" THEN SaveAllQuota(ctx) ELSE AddSheetQuota(ctx)

\* the handler up to the resolution of the count query on excel_audit
RaceCount(i, route) ==
  /\ left > 0
  /\ slots[i].pc = "idle"
  /\ \A j \in 1..(i - 1) : slots[j].pc # "idle"
  /\ LET ctx == AttachUserPlanAndFile(RaceUser, "ok")
         args == Args(RaceSheet, IF route = "save_all" THEN RaceData ELSE NoData, "", route = "add_sheet")
     IN  IF ctx.userPlan = "free" /\ RaceOver(ctx, route)
           THEN /\ slots' = [slots EXCEPT ![i] = [pc |-> "rejected", route |-> route,
                                                  seen |-> QuotaCount(ctx.uid, {route})]]
                /\ last' = Response(route, GridUser, "ok", ctx, args,
                                    Reject(403, "quota", NoKey, {"quota"}, {}, {}), NoBody)
           ELSE /\ slots' = [slots EXCEPT ![i] = [pc |-> "counted", route |-> route,
                                                  seen |-> QuotaCount(ctx.uid, {route})]]
                /\ last' = last
  /\ left' = left - 1
  /\ UNCHANGED <<profiles, store, audit, day, client, payments, sockets, sse, logs>>

\* getBufferFromStorage, the edit of the in-memory copy and updateBufferToStorage
RaceStore(i) ==
  /\ slots[i].pc = "counted"
  /\ LET ctx == AttachUserPlanAndFile(RaceUser, "ok")
         key == IF slots[i].route = "save_all" THEN SaveAllKey(ctx) ELSE AddSheetKey(ctx)
         dl == Download(key, "none")
         out == IF slots[i].route = "save_all" THEN SaveAllApply(dl, RaceSheet, RaceData)
                ELSE AddSheetApply(dl, RaceSheet, TRUE)
     IN  store' = Put(store, key, Xlsx(out))
  /\ slots' = [slots EXCEPT ![i].pc = "stored"]
  /\ UNCHANGED <<profiles, audit, day, last, left, client, payments, sockets, sse, logs>>

\* the audit insert and the response
RaceFinish(i) ==
  /\ slots[i].pc = "stored"
  /\ LET ctx == AttachUserPlanAndFile(RaceUser, "ok")
         route == slots[i].route
         key == IF route = "save_all" THEN SaveAllKey(ctx) ELSE AddSheetKey(ctx)
         args == Args(RaceSheet, IF route = "save_all" THEN RaceData ELSE NoData, "", route = "add_sheet")
         out == Broadcast(Outcome(200, "", key, store, Append(audit, AuditRow(ctx, route, RaceSheet)),
                                  [success |-> TRUE], {"quota"}, {key}, {key}),
                          IF route = "save_all" THEN "excel:save_all" ELSE "excel:add_sheet")
     IN  /\ last' = Response(route, GridUser, "ok", ctx, args, out, [success |-> TRUE])
         /\ audit' = out.audit
  /\ slots' = [slots EXCEPT ![i].pc = "done"]
  /\ UNCHANGED <<profiles, store, day, left, client, payments, sockets, sse, logs>>

NextRace ==
  \/ \E i \in Racers, route \in RaceRoutes : RaceCount(i, route)
  \/ \E i \in Racers : RaceStore(i)
  \/ \E i \in Racers : RaceFinish(i)

SpecRace == InitRace /\ [][NextRace]_vars

\* the requests of one route that were answered 200 and are recorded for the current day
Persisted(route) ==
  {i \in Racers : slots[i].pc = "done" /\ slots[i].route = route}

\* C28: under every interleaving of the concurrent requests of one free-plan user,
\* at most 3 save_all requests, and at most 3 add_sheet requests, succeed and
\* persist within one UTC day.
C28_DailyQuotaUnderConcurrency ==
  \A route \in RaceRoutes :
    /\ Cardinality(Persisted(route)) <= 3
    /\ QuotaCount(RaceUser, {route}) <= 3

----------------------------------------------------------------------------
(* SpecDash: dashboards of several users, each showing a sheet of its      *)
(* user's own workbook, connected to the realtime relay                    *)

MaxDashReq == 4        \* dashboard steps in SpecDash

Dashboards == {"a", "b", "c"}
DashSheets == {"S", "T"}
DashValues == {"x", "y"}

\* the signed-in user of each dashboard; /excel/preview serves that user's workbook
DashUser(c) == IF c = "b" THEN "u2" ELSE "u1"
DashWorkbook(c) == UserKey(DashUser(c))

\* `sheet:${selectedSheet}`
SheetRoom(selectedSheet) ==
  CASE selectedSheet = "S" -> "sheet:S"
    [] selectedSheet = "T" -> "sheet:T"
    [] OTHER -> "sheet:"

\* a dashboard with no sheet selected has no socket
ClosedDash == [connected |-> FALSE, rooms |-> {}, inbox |-> <<>>, selectedSheet |-> "", stagedGrid |-> <<>>]

\* the cell-edit listener: setStagedGrid on a copy of the staged grid
ApplyCellEdit(prev, op) ==
  IF Len(prev) = 0 THEN prev
  ELSE IF op.rowIndex + 1 \in 1..Len(prev) /\ op.colIndex >= 0 /\ op.colIndex + 1 \in 1..Len(prev[op.rowIndex + 1])
    THEN [prev EXCEPT ![op.rowIndex + 1][op.colIndex + 1] = op.value]
  ELSE prev

DashStep(c, event, op) ==
  /\ left > 0
  /\ left' = left - 1
  /\ last' = Emitted(c, event, op)
  /\ UNCHANGED <<profiles, store, audit, day, slots, client, payments, sse, logs>>

\* a sheet is selected: the effect connects and joins the sheet's room
DashSelect(c, sheet) ==
  /\ ~sockets[c].connected
  /\ DashStep(c, "join", [room |-> SheetRoom(sheet)])
  /\ LET room == SheetRoom(sheet)
         joined == [sockets EXCEPT ![c] = [connected |-> TRUE, rooms |-> {c, room}, inbox |-> <<>>,
                                           selectedSheet |-> sheet, stagedGrid |-> <<<<"a">>>>]]
     IN  sockets' = Deliver(joined, {t \in DOMAIN joined : joined[t].connected /\ room \in joined[t].rooms},
                            "presence", [userId |-> c, status |-> "joined"])

\* the cleanup of the effect: leave the room, then disconnect
DashCleanup(c) ==
  /\ sockets[c].connected
  /\ DashStep(c, "leave", [room |-> SheetRoom(sockets[c].selectedSheet)])
  /\ LET room == SheetRoom(sockets[c].selectedSheet)
         gone == [sockets EXCEPT ![c] = ClosedDash]
     IN  sockets' = Deliver(gone, {t \in DOMAIN gone : gone[t].connected /\ room \in gone[t].rooms},
                            "presence", [userId |-> c, status |-> "left"])

\* onCellEdit: the edit is staged locally, emitted for the room of the selected
\* sheet, relayed by the server and staged by every dashboard that receives it
DashCellEdit(c, value) ==
  /\ sockets[c].connected
  /\ sockets[c].selectedSheet # ""
  /\ LET op == [room |-> SheetRoom(sockets[c].selectedSheet), rowIndex |-> 0, colIndex |-> 0, value |-> value]
         to == Recipients(c, op.room)
         sent == Deliver(sockets, to, "cell-edit",
                         [rowIndex |-> op.rowIndex, colIndex |-> op.colIndex, value |-> op.value])
     IN  /\ DashStep(c, "cell-edit", op)
         /\ sockets' = [t \in DOMAIN sent |->
                          IF t = c \/ t \in to
                            THEN [sent[t] EXCEPT !.stagedGrid = ApplyCellEdit(@, op)]
                          ELSE sent[t]]

InitDash ==
  /\ profiles = [u \in Users |-> Profile("user", "paid", Null)]
  /\ store = [k \in {EXCEL_FILE_KEY} \cup {UserKey(u) : u \in Users} |->
                IF k = EXCEL_FILE_KEY THEN MasterWorkbook ELSE Workbook0]
  /\ audit = <<>>
  /\ day = 1
  /\ last = NoResponse
  /\ client = NoClient
  /\ payments = <<>>
  /\ sockets = [c \in Dashboards |-> ClosedDash]
  /\ sse = NoSse
  /\ logs = NoLogs
  /\ slots = <<>>
  /\ left = MaxDashReq

NextDash ==
  \/ \E c \in Dashboards, sheet \in DashSheets : DashSelect(c, sheet)
  \/ \E c \in Dashboards : DashCleanup(c)
  \/ \E c \in Dashboards, value \in DashValues : DashCellEdit(c, value)

SpecDash == InitDash /\ [][NextDash]_vars

\* C29: a cell edit made in a dashboard on a sheet of one user's workbook reaches
\* and changes only dashboards that show the same sheet of the same workbook;
\* dashboards showing an equally named sheet of another user's workbook do not
\* receive it.
C29_EditsStayInWorkbook ==
  [][(Served /\ last'.route = "cell-edit")
      => LET from == last'.args.sender IN
         \A t \in Dashboards \ {from} :
           (sockets'[t].inbox # sockets[t].inbox \/ sockets'[t].stagedGrid # sockets[t].stagedGrid)
             => /\ DashWorkbook(t) = DashWorkbook(from)
                /\ sockets[t].selectedSheet = sockets[from].selectedSheet]_vars

----------------------------------------------------------------------------
(* POST /payments/verify: the app route (behind requireAuth) and the router *)
(* route (no authentication)                                                *)

MaxVerifyReq == 2      \* verify requests in SpecVerify

VerifyReferences == {"ref1", "unknown", ""}
VerifyEmails == {"u1@x", "U1@x", "u2@x", ""}
VerifyModes == {"monthly", "yearly"}
VerifyFaults == {"none", "update_error", "insert_error"}

\* GET https://api.paystack.co/transaction/verify/:reference as the gateway answers it
GatewayVerify(reference) ==
  IF reference = "ref1"
    THEN [ok |-> TRUE, httpStatus |-> 200,
          tx |-> [status |-> "success", amount |-> 5000, customer |-> [email |-> "u1@x"]]]
  ELSE [ok |-> FALSE, httpStatus |-> 400,
        tx |-> [status |-> "", amount |-> 0, customer |-> [email |-> ""]]]

\* expiresAt: one month or one year after the moment of the call
ExpiresAt(mode) == [from |-> day, window |-> IF mode = "monthly" THEN "month" ELSE "year"]

\* .update({ plan: 'paid', premium_expires_at }).eq('email', email.toLowerCase())
MarkVerified(email, mode) ==
  [u \in Users |-> IF profiles[u].exists /\ profiles[u].email = ToLowerCase(email)
                     THEN [profiles[u] EXCEPT !.plan = "paid", !.premium_expires_at = ExpiresAt(mode)]
                     ELSE profiles[u]]

VerifyRow(reference, email, mode, tx) ==
  [email |-> email, amount |-> tx.amount, reference |-> reference, status |-> tx.status, mode |-> mode]

VerifyHandler(reference, email, mode, fault) ==
  LET same(status, err) == HookOutcome(status, err, profiles, payments, <<>>)
      data == GatewayVerify(reference)
  IN
  IF reference = "" \/ email = "" THEN same(400, "reference and email required")
  ELSE IF ~data.ok THEN same(data.httpStatus, "verification failed")
  ELSE IF fault = "update_error" THEN same(500, "update")
  ELSE IF fault = "insert_error"
    THEN HookOutcome(500, "insert", MarkVerified(email, mode), payments, <<>>)
  ELSE HookOutcome(302, "", MarkVerified(email, mode),
                   Append(payments, VerifyRow(reference, email, mode, data.tx)), <<>>)

VerifyArgs(variant, reference, email, mode, fault) ==
  [sheet |-> "", data |-> NoData, scope |-> "", overwrite |-> FALSE,
   variant |-> variant, reference |-> reference, email |-> email, mode |-> mode, fault |-> fault]

Verify(variant, cred, reference, email, mode, fault) ==
  LET a == RequireAuth(cred)
      args == VerifyArgs(variant, reference, email, mode, fault)
  IN  IF variant = "app" /\ ~a.ok THEN Respond("verify", cred, "skip", NoContext, args, Unauthorized)
      ELSE Respond("verify", cred, "skip", NoContext, args, VerifyHandler(reference, email, mode, fault))

\* a profile row with its premium_expires_at column
PaidProfile(plan, email) ==
  [exists |-> TRUE, role |-> "user", plan |-> plan, email |-> email, user_file_key |-> NoKey,
   status |-> "active", premium_expires_at |-> Null]

InitVerify ==
  /\ profiles = [u \in Users |-> IF u = "u1" THEN PaidProfile("free", "u1@x")
                                 ELSE PaidProfile("free", "u2@x")]
  /\ store = [k \in {EXCEL_FILE_KEY, UserKey("u1")} |->
                IF k = EXCEL_FILE_KEY THEN MasterWorkbook ELSE Workbook0]
  /\ audit = <<>>
  /\ day = 1
  /\ last = NoResponse
  /\ client = NoClient
  /\ payments = <<>>
  /\ sockets = NoSockets
  /\ sse = NoSse
  /\ logs = NoLogs
  /\ slots = <<>>
  /\ left = MaxVerifyReq

NextVerify ==
  \/ \E variant \in HookVariants, cred \in Creds, reference \in VerifyReferences,
        email \in VerifyEmails, mode \in VerifyModes, fault \in VerifyFaults :
       Verify(variant, cred, reference, email, mode, fault)
  \/ Tick

SpecVerify == InitVerify /\ [][NextVerify]_vars

\* the profiles a call changed
Upgraded == {u \in Users : profiles'[u] # profiles[u]}

\* C30: a verify call sets plan paid only on the profile whose email is the
\* customer email of the gateway transaction the reference identifies; and a
\* reference that has already been verified and recorded upgrades no further
\* profile and extends no expiry again.
C30_VerifyUpgradesCustomerOnce ==
  [][(Served /\ last'.route = "verify")
      => LET data == GatewayVerify(last'.args.reference) IN
         /\ \A u \in Upgraded : data.ok /\ profiles[u].email = data.tx.customer.email
         /\ (\E i \in 1..Len(payments) : payments[i].reference = last'.args.reference)
              => Upgraded = {}]_vars

====
